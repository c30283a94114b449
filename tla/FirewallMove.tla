----------------------------- MODULE FirewallMove -----------------------------
(***************************************************************************)
(* move_firewall_rule of guard.py: a rule, resolved by its comment, is put *)
(* in front of another, or at a position among the others.  The order of   *)
(* the menu is the firewall's meaning.                                     *)
(*                                                                         *)
(* One call runs at a time; between its read and its move an administrator *)
(* may add rules and delete them.  A rule keeps its comment and its chain. *)
(* Calls the gate or a validator refuses are GuardedWrite's; here every    *)
(* request has passed them.  Positions count from 0, as the tool's do.     *)
(***************************************************************************)
EXTENDS Integers, FiniteSets, SequencesExt

CONSTANTS
    Rule,       \* the rules there may be
    CommentOf,  \* CommentOf[r]
    ChainOf,    \* ChainOf[r]
    InitMenus,  \* the menus the device may start with
    Requests,   \* the calls the operator may make
    Lossy       \* requests and replies may be lost

NotGiven == "not given"
NoPosition == -1
End == "the end of the menu"

NoRequest == [comment |-> NotGiven, chain |-> NotGiven, before |-> NotGiven,
              position |-> NoPosition, confirm |-> FALSE]

\* Exactly one of before_comment and position.
WellFormed(q) ==
    /\ q.comment # NotGiven
    /\ q.position \in Nat \cup {NoPosition}
    /\ q.before = NotGiven <=> q.position # NoPosition
    /\ q.confirm \in BOOLEAN

\* Orders of some of the rules, none twice.
Menus == {s \in Seq(Rule) : IsInjective(s)}

ASSUME FirewallMoveConstants ==
    /\ IsFiniteSet(Rule)
    /\ End \notin Rule
    /\ InitMenus \subseteq Menus
    /\ \A q \in Requests : WellFormed(q)
    /\ Lossy \in BOOLEAN

VARIABLES
    menu,       \* the rules of /ip/firewall/filter, in order
    pc,         \* the next request of the call in flight
    req,        \* its arguments
    target,     \* the rule it moves
    dest,       \* the rule it moves it in front of, or End
    index,      \* the position its preview shows
    edited,     \* history: an administrator edited since the call read
    last        \* history: the call last carried out, if none edited since its read

found == <<target, dest, index>>
vars == <<menu, pc, req, found, edited, last>>

TypeOK ==
    /\ menu \in Menus
    /\ pc \in {"idle", "read", "move"}
    /\ req \in Requests \cup {NoRequest}
    /\ target \in Rule \cup {End}
    /\ dest \in Rule \cup {End}
    /\ dest # End => dest # target
    /\ pc = "move" <=> target # End
    /\ index \in Nat
    /\ edited \in BOOLEAN
    /\ last \in Requests \cup {NoRequest}

-----------------------------------------------------------------------------
(* Which rule, and where to.                                                *)

\* _find_firewall_rule_rows.
Matches(rs, comment, chain) ==
    {r \in ToSet(rs) : CommentOf[r] = comment /\ (chain = NotGiven \/ ChainOf[r] = chain)}

The(S) == CHOOSE r \in S : TRUE

\* Mutant: the chain is forgotten.
InAnyChain(rs, q) == The(Matches(rs, q.comment, NotGiven))
Target(rs, q) == The(Matches(rs, q.comment, q.chain))

\* Every row has its own .id: one goes.
Remaining(rs, q) == RemoveFirst(rs, Target(rs, q))

\* Neither not found nor ambiguous.
Resolves(rs, q) ==
    /\ Cardinality(Matches(rs, q.comment, q.chain)) = 1
    /\ q.before # NotGiven =>
         Cardinality(Matches(Remaining(rs, q), q.before, q.chain)) = 1

\* Where, among the others, the rule is to go.
PlaceOf(rs, r) == SelectInSeq(rs, LAMBDA s : s = r) - 1
\* Mutant: the position counts from where the rule is.
FromItsPlace(rs, q) ==
    LET rest == Remaining(rs, q)
        place == PlaceOf(rs, Target(rs, q)) + q.position
    IN  IF q.before # NotGiven
        THEN PlaceOf(rest, The(Matches(rest, q.before, q.chain)))
        ELSE IF place < Len(rest) THEN place ELSE Len(rest)
\* Mutant: places are those of the menu with the rule still in it.
InTheWholeMenu(rs, q) ==
    LET rest == Remaining(rs, q)
    IN  IF q.before # NotGiven
        THEN PlaceOf(rs, The(Matches(rest, q.before, q.chain)))
        ELSE IF q.position < Len(rs) THEN q.position ELSE Len(rs)
NewIndex(rs, q) ==
    LET rest == Remaining(rs, q)
    IN  IF q.before # NotGiven
        THEN PlaceOf(rest, The(Matches(rest, q.before, q.chain)))
        ELSE IF q.position < Len(rest) THEN q.position ELSE Len(rest)

Destination(rs, q) ==
    LET rest == Remaining(rs, q)
    IN  IF NewIndex(rs, q) < Len(rest) THEN rest[NewIndex(rs, q) + 1] ELSE End

-----------------------------------------------------------------------------
(* A call.                                                                  *)

Init ==
    /\ menu \in InitMenus
    /\ pc = "idle"
    /\ req = NoRequest
    /\ target = End
    /\ dest = End
    /\ index = 0
    /\ edited = FALSE
    /\ last = NoRequest

Return ==
    /\ pc' = "idle"
    /\ target' = End
    /\ dest' = End
    /\ index' = 0

Begin(q) ==
    /\ pc = "idle"
    /\ pc' = "read"
    /\ req' = q
    /\ UNCHANGED <<menu, found, edited, last>>

\* The read; an error, a preview, or on to the move.
Read ==
    /\ pc = "read"
    /\ edited' = FALSE
    /\ \/ ~(Resolves(menu, req) /\ req.confirm) /\ Return
       \/ /\ Resolves(menu, req) /\ req.confirm
          /\ pc' = "move"
          /\ target' = Target(menu, req)
          /\ dest' = Destination(menu, req)
          /\ index' = NewIndex(menu, req)
    /\ UNCHANGED <<menu, req, last>>

\* RouterOS `move`: in front of destination, or to the end without one.
Moved(rs, r, before) ==
    LET rest == RemoveFirst(rs, r)
    IN  IF before = End THEN Append(rest, r)
        ELSE InsertAt(rest, PlaceOf(rest, before) + 1, r)

Present == {target, dest} \subseteq ToSet(menu) \cup {End}

\* Whether its reply comes back or not, the call ends here.
Move ==
    /\ pc = "move"
    /\ Present
    /\ menu' = Moved(menu, target, dest)
    /\ last' = IF edited THEN NoRequest ELSE req
    /\ Return
    /\ UNCHANGED <<req, edited>>

\* A request that is lost, or that names a rule deleted meanwhile.
Fails ==
    /\ pc # "idle"
    /\ Lossy \/ ~Present
    /\ Return
    /\ UNCHANGED <<menu, req, edited, last>>

Edits ==
    /\ edited' = TRUE
    /\ last' = NoRequest
    /\ UNCHANGED <<pc, req, found>>

AddRule(r, i) ==
    /\ r \notin ToSet(menu)
    /\ menu' = InsertAt(menu, i, r)
    /\ Edits

DeleteRule(r) ==
    /\ r \in ToSet(menu)
    /\ menu' = RemoveFirst(menu, r)
    /\ Edits

Next ==
    \/ \E q \in Requests : Begin(q)
    \/ Read
    \/ Move
    \/ Fails
    \/ \E r \in Rule, i \in 1..(Len(menu) + 1) : AddRule(r, i)
    \/ \E r \in Rule : DeleteRule(r)

Spec == Init /\ [][Next]_vars

-----------------------------------------------------------------------------
(* Properties.                                                              *)

Carries(r, comment, chain) ==
    CommentOf[r] = comment /\ (chain = NotGiven \/ ChainOf[r] = chain)

\* A call changes the place of one rule, one that carries what the caller
\* named, and the order of all the others is what it was just before, whatever
\* an administrator did since the call read the menu.
KeepsTheOthers ==
    [][(pc = "move" /\ pc' = "idle" /\ menu' # menu) =>
         /\ req.confirm
         /\ \E r \in ToSet(menu) :
              /\ Carries(r, req.comment, req.chain)
              /\ RemoveFirst(menu', r) = RemoveFirst(menu, r)]_vars

\* The rule ends up right in front of one that carries before_comment, even if
\* the menu was edited after the read; moved to a position it ends up there,
\* as the preview shows, if it was not.
LandsWhereAsked ==
    [][(pc = "move" /\ pc' = "idle" /\ menu' # menu) =>
         LET place == PlaceOf(menu', target)
         IN  /\ req.before # NotGiven =>
                  /\ place + 1 < Len(menu')
                  /\ Carries(menu'[place + 2], req.before, req.chain)
             /\ ~edited =>
                  /\ place = index
                  /\ req.position # NoPosition =>
                       place = Min({req.position, Len(menu') - 1})]_vars

\* Writes are never retried because a reorder may not be idempotent
\* (client.py, move).  The caller may repeat this one: made again, with no edit
\* in between, a call changes nothing more.
Repeatable ==
    [][(pc = "move" /\ pc' = "idle" /\ req = last) => menu' = menu]_vars
=============================================================================
