------------------------------ MODULE AuditTrail ------------------------------
(***************************************************************************)
(* What the audit path promises of an authentication event, whatever       *)
(* queue, stream or archive holds it: it is stored, quarantined or still   *)
(* recoverable, and it is lost only after an alarm about it was raised.    *)
(***************************************************************************)
CONSTANT Events

VARIABLES
  custody,  \* custody[e]: where event e is
  told      \* events an alarm was raised about

\* refused: no event bus accepted it.  abandoned: its account was taken out of
\* the configuration by the operator while it was still held.
Custody == {"none", "refused", "held", "quarantined", "stored", "lost", "abandoned"}

Moves == {<<"none", "refused">>, <<"none", "held">>,
          <<"held", "stored">>, <<"held", "quarantined">>, <<"quarantined", "stored">>,
          <<"held", "lost">>, <<"held", "abandoned">>}

Init == custody = [e \in Events |-> "none"] /\ told = {}

\* One step may move several events: the path's minute is one for all of them.
Move ==
  /\ custody' \in [Events -> Custody]
  /\ \A e \in Events :
       /\ custody'[e] = custody[e] \/ <<custody[e], custody'[e]>> \in Moves
       /\ custody'[e] = "lost" => e \in told'
  /\ told \subseteq told'

Spec == Init /\ [][Move]_<<custody, told>>
=============================================================================
