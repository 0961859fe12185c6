----------------------------- MODULE LatestValue -----------------------------
(***************************************************************************)
(* What a triple buffer promises: one thread writes a draft and publishes  *)
(* it when it is complete; another fetches what was published last and     *)
(* goes on seeing it, complete and unchanged, until it fetches again.      *)
(* TripleBuffer.tla implements this.                                       *)
(***************************************************************************)
CONSTANTS Value, Torn

VARIABLES
  draft,       \* what the writer works at, Torn while it is incomplete
  published,   \* the value to be fetched next, or the one that was fetched
  seen,        \* the value the reader sees
  fresh,       \* published was not fetched yet
  epoch        \* changes with every reset

vars == <<draft, published, seen, fresh, epoch>>

Init ==
  /\ draft \in Value
  /\ published \in Value
  /\ seen \in Value
  /\ fresh \in BOOLEAN
  /\ ~fresh => seen = published
  /\ epoch \in BOOLEAN

Write ==
  /\ draft' \in Value \cup {Torn}
  /\ UNCHANGED <<published, seen, fresh, epoch>>

\* The writer goes on with some older value in its hands.
Publish ==
  /\ draft \in Value
  /\ published' = draft
  /\ fresh' = TRUE
  /\ draft' \in Value
  /\ UNCHANGED <<seen, epoch>>

Fetch ==
  /\ fresh
  /\ seen' = published
  /\ fresh' = FALSE
  /\ UNCHANGED <<draft, published, epoch>>

\* Only a reset may show an earlier value and lose one not fetched yet.
Forget ==
  /\ epoch' = ~epoch
  /\ seen' \in Value
  /\ published' = seen'
  /\ fresh' = FALSE
  /\ draft' \in Value

Next == Write \/ Publish \/ Fetch \/ Forget

Spec == Init /\ [][Next]_vars
=============================================================================
