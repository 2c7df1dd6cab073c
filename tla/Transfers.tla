----------------------------- MODULE Transfers -----------------------------
(***************************************************************************)
(* The public deposit and withdrawal states of the exchanges (app.py): one     *)
(* thread fetches the sources one after the other and stores each on its own;   *)
(* the market lanes read the rows to judge a path. One asset is modelled. A      *)
(* chain is open, delayed (open, withdrawals slow), closed in a direction, or      *)
(* unknown; an answer that cannot be read fails its whole source.                *)
(***************************************************************************)
EXTENDS Integers, Sequences

CONSTANTS Sources,             \* TRANSFER_PUBLIC_SOURCES, in their order
          Chains,
          SyncIntervals, LeastAge, \* values of the rule transfer_network_sync; 300 seconds
          LongestCall,         \* the time limit of a source
          MaxTransferTime, MaxTransferFaults   \* bounds

ASSUME TransferAssumption ==
  /\ SyncIntervals \subseteq Nat /\ LeastAge \in Nat /\ LongestCall \in Nat
  /\ Sources \in Seq({Sources[i] : i \in DOMAIN Sources})

VARIABLES transferTime,
          interval,     \* the rule
          networks,     \* TransferNetworkSnapshot of each source
          sync,         \* the round: the source it is at, what it read, what failed
          status,       \* AutomationStatus: when the round began that succeeded last
          answered,     \* history: when the last answer of each source was stored
          transferFaults

transferVars == <<transferTime, interval, networks, sync, status, answered, transferFaults>>

Exchanges == {Sources[i] : i \in DOMAIN Sources}
NoRow == [captured |-> -1]
NoSync == [at |-> 0]
NoAnswer == [seen |-> -1]
TransferInit ==
  /\ transferTime = 0 /\ interval \in SyncIntervals /\ transferFaults = 0 /\ sync = NoSync
  /\ networks = [e \in Exchanges |-> NoRow] /\ status = -1
  /\ answered = [e \in Exchanges |-> -1]

\* parse_transfer_networks: the chains of the asset, possibly none.
Marks == {"open", "delayed", "closed", "unknown"}
Listed == UNION {[names -> Marks] : names \in SUBSET Chains}

-----------------------------------------------------------------------------
\* background_transfer_network_sync, refresh_public_transfer_networks.
StartSync == /\ sync = NoSync
             /\ sync' = [at |-> 1, began |-> transferTime, called |-> transferTime,
                         answer |-> NoAnswer, errors |-> {}]
             /\ UNCHANGED <<transferTime, interval, networks, status, answered, transferFaults>>
Source == Sources[sync.at]
\* The next source is called whether this one failed or not.
LastOnly(failed) == IF failed THEN {Source} ELSE {}
Errors(failed) == IF failed THEN sync.errors \cup {Source} ELSE sync.errors
Onward(failed) == [sync EXCEPT !.at = @ + 1, !.called = transferTime, !.answer = NoAnswer,
                               !.errors = Errors(failed)]
Calling == sync # NoSync /\ sync.at \in DOMAIN Sources /\ sync.answer = NoAnswer
Answers ==
  /\ Calling /\ sync' = [sync EXCEPT !.answer = [seen |-> transferTime]]
  /\ UNCHANGED <<transferTime, interval, networks, status, answered, transferFaults>>
\* store_transfer_networks, for what the answer lists; an asset that the answer leaves out keeps its row.
StoreSource ==
  /\ sync # NoSync /\ sync.at \in DOMAIN Sources /\ sync.answer # NoAnswer
  /\ \/ \E chains \in Listed : networks' = [networks EXCEPT ![Source] =
          [captured |-> transferTime, seen |-> sync.answer.seen, chains |-> chains]]
     \/ UNCHANGED networks
  /\ sync' = Onward(FALSE) /\ answered' = [answered EXCEPT ![Source] = transferTime]
  /\ UNCHANGED <<transferTime, interval, status, transferFaults>>
\* No answer, one that cannot be read, or a database that fails.
SourceFails ==
  /\ sync # NoSync /\ sync.at \in DOMAIN Sources /\ transferFaults < MaxTransferFaults
  /\ sync' = Onward(TRUE) /\ transferFaults' = transferFaults + 1
  /\ UNCHANGED <<transferTime, interval, networks, status, answered>>
\* "success" is written only without any error; the error may stay unwritten.
EndSync ==
  /\ sync # NoSync /\ sync.at > Len(Sources) /\ sync' = NoSync
  /\ status' = IF sync.errors = {} THEN sync.began ELSE status
  /\ UNCHANGED <<transferTime, interval, networks, answered, transferFaults>>

SetInterval == /\ \E i \in SyncIntervals \ {interval} : interval' = i
               /\ UNCHANGED <<transferTime, networks, sync, status, answered, transferFaults>>
\* A call, a store and the pause between calls end within their limit.
TransferTicks == /\ transferTime < MaxTransferTime /\ transferTime' = transferTime + 1
                 /\ sync # NoSync => transferTime - sync.called < LongestCall
                 /\ UNCHANGED <<interval, networks, sync, status, answered, transferFaults>>

TransferNext == StartSync \/ Answers \/ StoreSource \/ SourceFails \/ EndSync \/ SetInterval \/ TransferTicks
TransferSpec == TransferInit /\ [][TransferNext]_transferVars

-----------------------------------------------------------------------------
\* load_transfer_statuses, register_alert_routes, as a lane finds them.
MaxAge == IF 2 * interval > LeastAge THEN 2 * interval ELSE LeastAge
IsFresh(e) == /\ networks[e] # NoRow /\ transferTime - networks[e].captured <= MaxAge
              /\ DOMAIN networks[e].chains # {}
MarksOf(e) == {networks[e].chains[c] : c \in DOMAIN networks[e].chains}
Restricted(e) == IsFresh(e) /\ MarksOf(e) \cap {"closed", "delayed"} # {}
Normal(e) == IsFresh(e) /\ MarksOf(e) = {"open"}

\* Whatever sources fail: what judges a path was said by the exchange within the age
\* limit and one call, and a success means that every source answered since its round
\* began ("never report a swallowed partial failure as success").
StatesAreRecent ==
  /\ \A e \in Exchanges : Restricted(e) \/ Normal(e) => transferTime - networks[e].seen <= MaxAge + LongestCall
  /\ \A e \in Exchanges : answered[e] >= status
=============================================================================
