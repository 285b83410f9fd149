-------------------------------- MODULE Transfer --------------------------------
(***************************************************************************)
(* HTTP transfers: requests that the Processor gives to curl, and the       *)
(* signals a Response gets from them.  curl works only inside               *)
(* curl_multi_perform(), which add() and onSelect() call; onSelect() then   *)
(* reads the messages of the transfers that have ended, and a handler that  *)
(* is told may start and destroy requests, the one it is told of too.       *)
(*                                                                          *)
(* The handlers of a fragment, which run inside curl, start and destroy     *)
(* nothing (README, section 6).                                             *)
(***************************************************************************)
EXTENDS Integers, Sequences, SequencesExt

CONSTANTS
  Requests, NoRequest,
  Unsaved,         \* those of a Response without saveBody: nobody listens to their fragments
  MaxBodyFragments     \* bound: fragments of a body

ASSUME TransferAssumption ==
  /\ NoRequest \notin Requests /\ Unsaved \subseteq Requests /\ MaxBodyFragments \in Nat

VARIABLES
  alive,        \* requests that exist; each is made once
  easy,         \* what curl does with it: "new", "active", "done" with a message to be
                \* read, "read", or "gone"
  reqMap,       \* Processor::_reqMap
  performing,   \* curl_multi_perform() runs
  selecting,    \* onSelect() runs
  telling,      \* the request whose recvBodyDone runs
  heard,        \* the signals of each request
  late,         \* the transfers that ended inside add()
  wild          \* a request was told after it was destroyed

transferVars == <<alive, easy, reqMap, performing, selecting, telling, heard, late, wild>>

TransferInit ==
  /\ alive = {} /\ easy = [r \in Requests |-> "new"] /\ reqMap = {}
  /\ performing = FALSE /\ selecting = FALSE /\ telling = NoRequest
  /\ heard = [r \in Requests |-> <<>>] /\ late = {} /\ wild = FALSE

(* The program has its turn: between the calls of the loop, or in a handler. *)
ProgramsTurn == ~performing /\ (selecting => telling # NoRequest)

NewRequest(r) ==
  /\ ProgramsTurn /\ r \notin alive /\ easy[r] = "new" /\ alive' = alive \cup {r}
  /\ UNCHANGED <<easy, reqMap, performing, selecting, telling, heard, late, wild>>

(* perform(): Processor::add() *)
PerformRequest(r) ==
  /\ ProgramsTurn /\ r \in alive /\ easy[r] = "new"
  /\ easy' = [easy EXCEPT ![r] = "active"] /\ reqMap' = reqMap \cup {r} /\ performing' = TRUE
  /\ UNCHANGED <<alive, selecting, telling, heard, late, wild>>

(* Mutant: the destructor leaves the request with the processor. *)
RemoveNothing(r) == UNCHANGED <<easy, reqMap>>

(* Processor::remove(): its messages go too. *)
RemoveRequest(r) == easy' = [easy EXCEPT ![r] = "gone"] /\ reqMap' = reqMap \ {r}

DestroyRequest(r) ==
  /\ ProgramsTurn /\ r \in alive /\ alive' = alive \ {r} /\ RemoveRequest(r)
  /\ UNCHANGED <<performing, selecting, telling, heard, late, wild>>

End(r) ==
  /\ easy' = [easy EXCEPT ![r] = "done"]
  /\ late' = IF selecting /\ telling = NoRequest THEN late ELSE late \cup {r}

(* onBodyFrag(): curl ends the transfer if nobody takes the fragment. *)
Fragment(r) ==
  /\ performing /\ easy[r] = "active" /\ Len(heard[r]) <= MaxBodyFragments
  /\ LET first == IF heard[r] = <<>> THEN <<"start">> ELSE heard[r]
     IN  IF r \in Unsaved
           THEN heard' = [heard EXCEPT ![r] = first] /\ End(r)
           ELSE heard' = [heard EXCEPT ![r] = Append(first, "frag")] /\ UNCHANGED <<easy, late>>
  /\ UNCHANGED <<alive, reqMap, performing, selecting, telling, wild>>

EndTransfer(r) ==
  /\ performing /\ easy[r] = "active" /\ End(r)
  /\ UNCHANGED <<alive, reqMap, performing, selecting, telling, heard, wild>>

PerformReturns ==
  /\ performing /\ performing' = FALSE
  /\ UNCHANGED <<alive, easy, reqMap, selecting, telling, heard, late, wild>>

(* AppLoop calls onSelect() only when a descriptor is ready: without an       *)
(* active transfer there is none.                                             *)
SelectTransfers ==
  /\ ~performing /\ ~selecting /\ \E r \in Requests : easy[r] = "active"
  /\ performing' = TRUE /\ selecting' = TRUE
  /\ UNCHANGED <<alive, easy, reqMap, telling, heard, late, wild>>

(* One message of curl_multi_info_read(); Response::onBodyDone(). *)
ReadMessage(r) ==
  /\ selecting /\ ~performing /\ telling = NoRequest /\ easy[r] = "done"
  /\ easy' = [easy EXCEPT ![r] = "read"]
  /\ IF r \in reqMap
       THEN /\ telling' = r /\ wild' = (wild \/ r \notin alive)
            /\ heard' = [heard EXCEPT ![r] = Append(@, "done")]
       ELSE UNCHANGED <<telling, heard, wild>>
  /\ UNCHANGED <<alive, reqMap, performing, selecting, late>>

HandlerReturns ==
  /\ telling # NoRequest /\ ~performing /\ telling' = NoRequest
  /\ UNCHANGED <<alive, easy, reqMap, performing, selecting, heard, late, wild>>

SelectReturns ==
  /\ selecting /\ ~performing /\ telling = NoRequest /\ \A r \in Requests : easy[r] # "done"
  /\ selecting' = FALSE
  /\ UNCHANGED <<alive, easy, reqMap, performing, telling, heard, late, wild>>

TransferNext ==
  \/ PerformReturns \/ SelectTransfers \/ HandlerReturns \/ SelectReturns
  \/ \E r \in Requests :
       NewRequest(r) \/ PerformRequest(r) \/ DestroyRequest(r) \/ Fragment(r) \/ EndTransfer(r)
         \/ ReadMessage(r)

TransferSpec == TransferInit /\ [][TransferNext]_transferVars

--------------------------------------------------------------------------------
(* Properties. *)

(* A body starts, comes in fragments, and ends, or ends without one. *)
InSequence(r) ==
  \A i \in DOMAIN heard[r] :
    /\ heard[r][i] = "start" => i = 1
    /\ heard[r][i] = "frag" => i > 1
    /\ heard[r][i] = "done" => i = Len(heard[r])

(* Whatever handlers start and destroy while onSelect() goes through the      *)
(* messages: no destroyed request is told, each one hears its body and then,  *)
(* once, of its end; and a transfer whose end is still to be told when the    *)
(* loop sleeps has ended inside add(), where nobody reads messages.           *)
EndsAreTold ==
  /\ ~wild
  /\ \A r \in Requests :
       /\ InSequence(r)
       /\ ~performing /\ ~selecting /\ easy[r] = "done" => r \in late

(* What the proof carries along: the processor knows the transfers curl works *)
(* on and those that have ended, which exist and have not been told.          *)
Pending == {"active", "done"}

TransferIInv ==
  /\ easy \in [Requests -> {"new", "active", "done", "read", "gone"}]
  /\ heard \in [Requests -> Seq({"start", "frag", "done"})]
  /\ ~wild /\ reqMap \subseteq alive
  /\ \A r \in Requests :
       /\ InSequence(r)
       /\ easy[r] \in Pending => r \in reqMap
       /\ easy[r] \in Pending \cup {"new"} => \A i \in DOMAIN heard[r] : heard[r][i] # "done"
       /\ easy[r] = "done" => r \in late \/ selecting
================================================================================
