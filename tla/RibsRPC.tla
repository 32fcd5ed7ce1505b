------------------------------- MODULE RibsRPC --------------------------------
(***************************************************************************)
(* The web application's connection to the node: RibsRPC (helpers/rpc.js)  *)
(* keeps one current client, retries calls and replaces the client when a  *)
(* connection is lost; RpcStatus shows the connection, the wallet tile of  *)
(* the status page is the caller whose calls change something.             *)
(*                                                                         *)
(* The client is rpc-websockets 7.5.1, external: it connects by itself,    *)
(* tries again up to max_reconnects times in a row, emits "close" only for *)
(* a connection that had been open, rejects a call while it is not open,   *)
(* and never settles a call whose connection is lost.  A client that was   *)
(* replaced is not closed: it goes on reconnecting beside the new one.     *)
(*                                                                         *)
(* Timers fire at any moment after they are set.  MaxFaults bounds the     *)
(* server stops and lost connections, MaxInstances the clients they lead   *)
(* to (2^MaxFaults clients need no bound).                                 *)
(***************************************************************************)
EXTENDS Integers

CONSTANTS Call,          \* submissions of the wallet form
          MaxRetries,    \* maxRetries of call and callFil
          MaxReconnects, \* max_reconnects of the client
          MaxInstances, MaxFaults

ASSUME RetriesAssumption == MaxRetries \in Nat \ {0}
ASSUME ReconnectsAssumption == MaxReconnects \in Nat \ {0}
ASSUME InstancesAssumption == MaxInstances \in Nat \ {0}
ASSUME FaultsAssumption == MaxFaults \in Nat

VARIABLES
  sock, tries,      \* of the k-th client made: its socket and current_reconnects,
  onOpen, onClose,  \*   the callbacks of RpcStatus on it,
  reconn,           \*   the reconnect handlers on it,
  opened,           \* the clients that ever were connected (history)
  made,             \* number of clients made
  instance,         \* RibsRPC.instance, 0 for null
  timers,           \* pending 5 s timers of autoReconnect
  closes,           \* "close" events emitted (history)
  faults, server,
  status,           \* what RpcStatus shows
  pc, i, on, op,    \* of a submission: its stage, attempt, client and operation,
  exec,             \*   and how often the node ran it (history)
  dropdown, operationType

clientVars == <<sock, tries, onOpen, onClose, reconn, opened>>
rpcVars == <<clientVars, made, instance, timers, closes, faults, server, status>>
callVars == <<pc, i, on, op, exec>>
walletVars == <<dropdown, operationType>>
vars == <<rpcVars, callVars, walletVars>>

Inst == 1..MaxInstances
Operation == {"add", "withdraw"}
InFlight == {"sent", "ran", "failed"}
Settled == {"ok", "error", "lost"}

Init ==
  /\ sock = [k \in Inst |-> "none"] /\ tries = [k \in Inst |-> 0]
  /\ onOpen = [k \in Inst |-> 0] /\ onClose = [k \in Inst |-> 0]
  /\ reconn = [k \in Inst |-> 0] /\ opened = {}
  /\ made = 0 /\ instance = 0 /\ timers = 0 /\ closes = 0 /\ faults = 0
  /\ server \in {"up", "down"}
  /\ status = "Connecting"
  /\ pc = [c \in Call |-> "idle"] /\ i = [c \in Call |-> 0] /\ on = [c \in Call |-> 0]
  /\ op = [c \in Call |-> "add"] /\ exec = [c \in Call |-> 0]
  /\ dropdown = "closed" /\ operationType = "add"

-------------------------------------------------------------------------------
(* createInstance: client k connects, with the callbacks stored so far.    *)
\* Mutant: the stored disconnect callbacks are not put on a new client.
createInstanceDeaf(k, connectCallbacks, disconnectCallbacks) ==
  /\ sock' = [sock EXCEPT ![k] = "connecting"]
  /\ onOpen' = [onOpen EXCEPT ![k] = connectCallbacks]
  /\ onClose' = onClose
  /\ UNCHANGED <<tries, opened>>

createInstance(k, connectCallbacks, disconnectCallbacks) ==
  /\ sock' = [sock EXCEPT ![k] = "connecting"]
  /\ onOpen' = [onOpen EXCEPT ![k] = connectCallbacks]
  /\ onClose' = [onClose EXCEPT ![k] = disconnectCallbacks]
  /\ UNCHANGED <<tries, opened>>

(* autoReconnect puts a "close" handler on the current instance k.         *)
\* Mutant: the handler is put on no client.
autoReconnectNot(k) == reconn' = reconn

autoReconnect(k) == reconn' = [reconn EXCEPT ![k] = @ + 1]

(* RpcStatus's effect is the first caller: onConnect stores its callback,  *)
(* get() makes the first client with it and on() adds it a second time;    *)
(* onDisconnect finds the client made.                                     *)
RpcStatusMount ==
  /\ instance = 0
  /\ createInstance(1, 1 + 1, 1) /\ autoReconnect(1)
  /\ made' = 1 /\ instance' = 1
  /\ UNCHANGED <<timers, closes, faults, server, status, callVars, walletVars>>

(* The 5 s timer of a lost connection: a new current instance, whatever    *)
(* the state of the instance it replaces.                                  *)
\* Mutant: the new client does not become the current instance.
ReconnectKeepsOld ==
  /\ timers > 0 /\ made < MaxInstances
  /\ timers' = timers - 1
  /\ createInstance(made + 1, 1, 1) /\ autoReconnect(made + 1)
  /\ made' = made + 1 /\ instance' = instance
  /\ UNCHANGED <<closes, faults, server, status, callVars, walletVars>>

Reconnect ==
  /\ timers > 0 /\ made < MaxInstances
  /\ timers' = timers - 1
  /\ createInstance(made + 1, 1, 1) /\ autoReconnect(made + 1)
  /\ made' = made + 1 /\ instance' = made + 1
  /\ UNCHANGED <<closes, faults, server, status, callVars, walletVars>>

-------------------------------------------------------------------------------
(* The client: a lost or failed connection is tried again while tries last. *)
Lose(k) ==
  /\ tries' = [tries EXCEPT ![k] = @ + 1]
  /\ sock' = [sock EXCEPT ![k] = IF MaxReconnects > tries[k] + 1 THEN "connecting" ELSE "dead"]
  /\ UNCHANGED <<onOpen, onClose, reconn, opened>>

ClientOpens(k) ==
  /\ server = "up" /\ sock[k] = "connecting"
  /\ sock' = [sock EXCEPT ![k] = "open"]
  /\ tries' = [tries EXCEPT ![k] = 0]
  /\ opened' = opened \cup {k}
  /\ status' = IF onOpen[k] > 0 THEN "OK" ELSE status
  /\ UNCHANGED <<onOpen, onClose, reconn, made, instance, timers, closes, faults, server,
                 callVars, walletVars>>

ClientFails(k) ==
  /\ server = "down" /\ sock[k] = "connecting"
  /\ Lose(k)
  /\ UNCHANGED <<made, instance, timers, closes, faults, server, status, callVars, walletVars>>

(* The connection of client k is lost: its "close" listeners run, each     *)
(* reconnect handler sets a timer, and calls in flight on it are stranded. *)
ClientCloses(k) ==
  /\ sock[k] = "open"
  /\ Lose(k)
  /\ closes' = closes + 1
  /\ timers' = timers + reconn[k]
  /\ status' = IF onClose[k] > 0 THEN "Disconnected" ELSE status
  /\ pc' = [c \in Call |-> IF pc[c] \in InFlight /\ on[c] = k THEN "lost" ELSE pc[c]]
  /\ UNCHANGED <<made, instance, server, i, on, op, exec, walletVars>>

ServerGone(k) == server = "down" /\ ClientCloses(k) /\ faults' = faults
Drop(k) == server = "up" /\ faults < MaxFaults /\ ClientCloses(k) /\ faults' = faults + 1

ServerStops ==
  /\ server = "up" /\ faults < MaxFaults
  /\ server' = "down" /\ faults' = faults + 1
  /\ UNCHANGED <<clientVars, made, instance, timers, closes, status, callVars, walletVars>>
ServerStarts ==
  /\ server = "down" /\ \A k \in Inst : sock[k] # "open"
  /\ server' = "up"
  /\ UNCHANGED <<clientVars, made, instance, timers, closes, faults, status, callVars, walletVars>>

-------------------------------------------------------------------------------
(* RibsRPC.call: what an error does to attempt n, and attempt n.           *)
\* Mutant: one attempt too many.
RejectedLate(c, n) ==
  /\ pc' = [pc EXCEPT ![c] = IF n = MaxRetries THEN "error" ELSE "delay"]
  /\ i' = [i EXCEPT ![c] = n]
  /\ on' = on

\* Mutant: the attempts are not counted.
RejectedForever(c, n) ==
  /\ pc' = [pc EXCEPT ![c] = "delay"]
  /\ UNCHANGED <<i, on>>

Rejected(c, n) ==
  /\ pc' = [pc EXCEPT ![c] = IF n = MaxRetries - 1 THEN "error" ELSE "delay"]
  /\ i' = [i EXCEPT ![c] = n]
  /\ on' = on

Attempt(c, n) ==
  \/ /\ sock[instance] = "open"
     /\ pc' = [pc EXCEPT ![c] = "sent"]
     /\ i' = [i EXCEPT ![c] = n]
     /\ on' = [on EXCEPT ![c] = instance]
  \/ /\ sock[instance] # "open"
     /\ Rejected(c, n)

(* handleSubmit: nothing keeps a second submission from being made while   *)
(* the first is on its way.                                                *)
Submit(c) ==
  /\ instance # 0 /\ dropdown = "open" /\ pc[c] = "idle"
  /\ op' = [op EXCEPT ![c] = operationType]
  /\ Attempt(c, 0)
  /\ UNCHANGED <<exec, rpcVars, walletVars>>

(* The 1 s delay before the next attempt is over.                          *)
Retry(c) ==
  /\ pc[c] = "delay"
  /\ Attempt(c, i[c] + 1)
  /\ UNCHANGED <<op, exec, rpcVars, walletVars>>

(* The node runs the request, or it fails: before it had an effect, or     *)
(* after the message went out.  MarketWithdraw always fails.               *)
ServerRuns(c) ==
  /\ pc[c] = "sent" /\ server = "up"
  /\ \/ /\ op[c] = "add"
        /\ \E r \in {"ran", "failed"} : pc' = [pc EXCEPT ![c] = r]
        /\ exec' = [exec EXCEPT ![c] = @ + 1]
     \/ /\ pc' = [pc EXCEPT ![c] = "failed"]
        /\ exec' = exec
  /\ UNCHANGED <<i, on, op, rpcVars, walletVars>>

(* The answer arrives: an alert, and the form closes after a success.      *)
Answered(c) ==
  /\ pc[c] = "ran"
  /\ pc' = [pc EXCEPT ![c] = "ok"]
  /\ dropdown' = "closed"
  /\ UNCHANGED <<i, on, op, exec, rpcVars, operationType>>
Refused(c) ==
  /\ pc[c] = "failed"
  /\ Rejected(c, i[c])
  /\ UNCHANGED <<op, exec, rpcVars, walletVars>>

(* The buttons are there once WalletInfo was answered.                     *)
handleAddWithdrawClick(type) ==
  /\ opened # {}
  /\ operationType' = type
  /\ dropdown' = IF dropdown = "open" THEN "closed" ELSE "open"
  /\ UNCHANGED <<rpcVars, callVars>>

-------------------------------------------------------------------------------
Next ==
  \/ RpcStatusMount \/ Reconnect \/ ServerStops \/ ServerStarts
  \/ \E k \in Inst : ClientOpens(k) \/ ClientFails(k) \/ ServerGone(k) \/ Drop(k)
  \/ \E c \in Call : Submit(c) \/ Retry(c) \/ ServerRuns(c) \/ Answered(c) \/ Refused(c)
  \/ \E type \in Operation : handleAddWithdrawClick(type)

Spec == Init /\ [][Next]_vars

(* Fairness: timers fire, clients connect or fail, a stopped server's      *)
(* connections end, and the node answers what it was asked.                *)
FairSpec ==
  /\ Spec
  /\ WF_vars(RpcStatusMount) /\ WF_vars(Reconnect)
  /\ \A k \in Inst : WF_vars(ClientOpens(k)) /\ WF_vars(ClientFails(k)) /\ WF_vars(ServerGone(k))
  /\ \A c \in Call : WF_vars(Retry(c)) /\ WF_vars(ServerRuns(c)) /\ WF_vars(Answered(c) \/ Refused(c))

-------------------------------------------------------------------------------
TypeOK ==
  /\ sock \in [Inst -> {"none", "connecting", "open", "dead"}]
  /\ tries \in [Inst -> Nat] /\ onOpen \in [Inst -> Nat] /\ onClose \in [Inst -> Nat]
  /\ reconn \in [Inst -> Nat] /\ opened \in SUBSET Inst
  /\ made \in 0..MaxInstances /\ instance \in 0..MaxInstances
  /\ timers \in Nat /\ closes \in Nat /\ faults \in 0..MaxFaults
  /\ server \in {"up", "down"}
  /\ status \in {"Connecting", "OK", "Disconnected"}
  /\ pc \in [Call -> {"idle", "delay"} \cup InFlight \cup Settled]
  /\ i \in [Call -> 0..(MaxRetries - 1)] /\ on \in [Call -> 0..MaxInstances]
  /\ op \in [Call -> Operation] /\ exec \in [Call -> Nat]
  /\ dropdown \in {"open", "closed"} /\ operationType \in Operation

(***************************************************************************)
(* Every lost connection is replaced exactly once: the clients made and    *)
(* the reconnect timers still running are one more than the "close" events *)
(* (autoReconnect, on every instance and not twice), and none of either is *)
(* there before the first client.                                          *)
(***************************************************************************)
ReplacedOnce ==
  IF instance = 0 THEN timers = 0 /\ closes = 0 ELSE made + timers = 1 + closes

(***************************************************************************)
(* When RpcStatus shows "RPC: OK" some client is connected: the callbacks  *)
(* hear every instance createInstance makes, and a replaced client's close *)
(* is not missed.  It need not be the current instance.                    *)
(***************************************************************************)
OkMeansConnected == status = "OK" => \E k \in Inst : sock[k] = "open"

(***************************************************************************)
(* What the wallet form reports about a call: a success was executed, an   *)
(* error comes after all maxRetries attempts, and the node has executed    *)
(* the request at most once per attempt (it may have done so and the user  *)
(* still be told to try again).                                            *)
(***************************************************************************)
CallAccounting ==
  \A c \in Call :
    /\ pc[c] = "ok" => exec[c] >= 1
    /\ pc[c] = "error" => i[c] = MaxRetries - 1
    /\ exec[c] <= IF pc[c] \in {"idle", "sent"} THEN i[c] ELSE i[c] + 1

(***************************************************************************)
(* The inductive invariant: every client made has one reconnect handler    *)
(* and hears both callbacks, a request in flight is on an open connection, *)
(* and the attempts of a call are accounted for at every stage             *)
(* (createInstance, autoReconnect, call).                                  *)
(***************************************************************************)
ClientsWired ==
  /\ made = instance
  /\ \A k \in Inst : /\ k <= made => reconn[k] = 1 /\ onOpen[k] >= 1 /\ onClose[k] >= 1
                     /\ k > made => sock[k] = "none" /\ reconn[k] = 0

AttemptsCounted ==
  \A c \in Call :
    /\ pc[c] = "ran" => exec[c] >= 1
    /\ pc[c] = "idle" => i[c] = 0
    /\ pc[c] = "delay" => i[c] < MaxRetries - 1
    /\ pc[c] # "idle" => instance # 0
    /\ pc[c] \in InFlight => on[c] \in Inst /\ sock[on[c]] = "open"

IInv == ClientsWired /\ ReplacedOnce /\ OkMeansConnected /\ CallAccounting /\ AttemptsCounted

(***************************************************************************)
(* Once the server stays up, the current instance gets and keeps its       *)
(* connection, or it is a client that used up its tries without ever       *)
(* having been connected: then no "close" event is emitted and nothing     *)
(* replaces it.                                                            *)
(***************************************************************************)
Recovers ==
  <>[](server = "up") =>
    \/ <>[](instance # 0 /\ sock[instance] = "open")
    \/ <>[](instance # 0 /\ sock[instance] = "dead" /\ instance \notin opened)

(***************************************************************************)
(* A call settles, or it was on its way when its connection was lost.      *)
(***************************************************************************)
CallsSettle == \A c \in Call : (pc[c] \in InFlight \cup {"delay"}) ~> (pc[c] \in Settled)
===============================================================================
