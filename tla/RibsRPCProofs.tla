---------------------------- MODULE RibsRPCProofs -----------------------------
(***************************************************************************)
(* What holds of RibsRPC for any number of calls, attempts, faults and     *)
(* clients: types, the wiring of the clients, and the account of a call.   *)
(*                                                                         *)
(* The steps of the clients leave the calls alone, but for those in flight *)
(* on a lost connection, and the steps of a call leave the clients alone:  *)
(* each half of the invariant is a matter of one half of the state.        *)
(***************************************************************************)
EXTENDS RibsRPC, TLAPS

USE RetriesAssumption, ReconnectsAssumption, InstancesAssumption, FaultsAssumption
  DEF RetriesAssumption, ReconnectsAssumption, InstancesAssumption, FaultsAssumption

(* TypeOK in three parts.                                                  *)
ClientTypes ==
  /\ sock \in [Inst -> {"none", "connecting", "open", "dead"}]
  /\ tries \in [Inst -> Nat] /\ onOpen \in [Inst -> Nat] /\ onClose \in [Inst -> Nat]
  /\ reconn \in [Inst -> Nat] /\ opened \in SUBSET Inst
  /\ made \in 0..MaxInstances /\ instance \in 0..MaxInstances
CallTypes ==
  /\ pc \in [Call -> {"idle", "delay"} \cup InFlight \cup Settled]
  /\ i \in [Call -> 0..(MaxRetries - 1)] /\ on \in [Call -> 0..MaxInstances]
  /\ op \in [Call -> Operation] /\ exec \in [Call -> Nat]
RestTypes ==
  /\ timers \in Nat /\ closes \in Nat /\ faults \in 0..MaxFaults
  /\ server \in {"up", "down"}
  /\ status \in {"Connecting", "OK", "Disconnected"}
  /\ dropdown \in {"open", "closed"} /\ operationType \in Operation

LEMMA TypeParts ==
  /\ TypeOK <=> ClientTypes /\ CallTypes /\ RestTypes
  /\ TypeOK' <=> ClientTypes' /\ CallTypes' /\ RestTypes'
BY DEF TypeOK, ClientTypes, CallTypes, RestTypes

(* CallAccounting and AttemptsCounted for one call.                        *)
Counted(c) ==
  /\ pc[c] = "ok" => exec[c] >= 1
  /\ pc[c] = "error" => i[c] = MaxRetries - 1
  /\ pc[c] \in {"idle", "sent"} => exec[c] <= i[c]
  /\ pc[c] \notin {"idle", "sent"} => exec[c] <= i[c] + 1
  /\ pc[c] = "ran" => exec[c] >= 1
  /\ pc[c] = "idle" => i[c] = 0
  /\ pc[c] = "delay" => i[c] < MaxRetries - 1
  /\ pc[c] # "idle" => instance # 0
  /\ pc[c] \in InFlight => on[c] \in Inst /\ sock[on[c]] = "open"
Account == \A c \in Call : Counted(c)

LEMMA AccountParts ==
  /\ Account <=> CallAccounting /\ AttemptsCounted
  /\ Account' <=> CallAccounting' /\ AttemptsCounted'
BY DEF Account, Counted, CallAccounting, AttemptsCounted

Clients == ClientTypes /\ ClientsWired /\ OkMeansConnected
Calls == CallTypes /\ Account
Inv == Clients /\ Calls /\ RestTypes /\ ReplacedOnce

LEMMA InvIs == Inv <=> TypeOK /\ IInv
BY TypeParts, AccountParts DEF Inv, Clients, Calls, IInv

LEMMA InitInv == Init => Inv
<1> SUFFICES ASSUME Init PROVE Inv
  OBVIOUS
<1>1. ClientTypes /\ CallTypes /\ RestTypes
  BY DEF Init, ClientTypes, CallTypes, RestTypes, Operation
<1>2. ClientsWired /\ ReplacedOnce /\ OkMeansConnected
  <2>1. \A k \in Inst : k > 0 /\ sock[k] = "none" /\ reconn[k] = 0
    BY DEF Init, Inst
  <2>2. made = 0 /\ instance = 0 /\ timers = 0 /\ closes = 0 /\ status = "Connecting"
    BY DEF Init
  <2>3. ClientsWired
    BY <2>1, <2>2 DEF ClientsWired, Inst
  <2> QED BY <2>2, <2>3 DEF ReplacedOnce, OkMeansConnected
<1>3. Account
  <2>1. ASSUME NEW c \in Call PROVE pc[c] = "idle" /\ exec[c] = 0 /\ i[c] = 0
    BY DEF Init
  <2>2. ASSUME NEW c \in Call PROVE Counted(c)
    <3>1. pc[c] = "idle" /\ exec[c] = 0 /\ i[c] = 0
      BY <2>1
    <3>2. pc[c] \notin InFlight
      BY <3>1 DEF InFlight
    <3> QED BY <3>1, <3>2 DEF Counted
  <2> QED BY <2>2 DEF Account
<1> QED BY <1>1, <1>2, <1>3 DEF Inv, Clients, Calls

(* What a step keeps of the half it leaves alone.                          *)
LEMMA ClientsFrame ==
  ASSUME Clients, UNCHANGED <<clientVars, made, instance, status>>
  PROVE  Clients'
<1>1. ClientTypes'
  BY DEF Clients, clientVars, ClientTypes
<1>2. ClientsWired' /\ OkMeansConnected'
  BY DEF Clients, clientVars, ClientsWired, OkMeansConnected
<1> QED BY <1>1, <1>2 DEF Clients

LEMMA CallsFrame ==
  ASSUME Calls, UNCHANGED callVars, instance = 0 \/ instance' # 0,
         \A k \in Inst : sock[k] = "open" => sock'[k] = "open"
  PROVE  Calls'
<1>1. CallTypes'
  BY DEF Calls, callVars, CallTypes
<1>2. ASSUME NEW c \in Call PROVE Counted(c)'
  BY <1>2 DEF Calls, Account, callVars, Counted
<1> QED BY <1>1, <1>2 DEF Calls, Account

-------------------------------------------------------------------------------
(* The clients.                                                            *)
LEMMA CreateKeeps ==
  ASSUME Inv, made < MaxInstances, NEW n \in Nat \ {0},
         createInstance(made + 1, n, 1), autoReconnect(made + 1),
         made' = made + 1, instance' = made + 1, UNCHANGED <<status, callVars>>
  PROVE  Clients' /\ Calls'
<1> DEFINE k == made + 1
<1>1. k \in Inst /\ sock[k] = "none" /\ reconn[k] = 0
  BY DEF Inv, Clients, ClientTypes, ClientsWired, Inst
<1>2. ClientTypes'
  <2>1. sock' \in [Inst -> {"none", "connecting", "open", "dead"}]
    BY <1>1 DEF Inv, Clients, ClientTypes, createInstance
  <2>2. onOpen' \in [Inst -> Nat] /\ onClose' \in [Inst -> Nat]
    BY <1>1 DEF Inv, Clients, ClientTypes, createInstance
  <2>3. reconn' \in [Inst -> Nat]
    BY <1>1 DEF Inv, Clients, ClientTypes, autoReconnect
  <2>4. UNCHANGED <<tries, opened>>
    BY DEF createInstance
  <2>5. made' \in 0..MaxInstances /\ instance' \in 0..MaxInstances
    BY DEF Inv, Clients, ClientTypes
  <2> QED BY <2>1, <2>2, <2>3, <2>4, <2>5 DEF Inv, Clients, ClientTypes
<1>3. ASSUME NEW j \in Inst
      PROVE  /\ j <= made' => reconn'[j] = 1 /\ onOpen'[j] >= 1 /\ onClose'[j] >= 1
             /\ j > made' => sock'[j] = "none" /\ reconn'[j] = 0
  <2>1. CASE j = k
    BY <1>1, <2>1 DEF Inv, Clients, ClientTypes, createInstance, autoReconnect, Inst
  <2>2. CASE j # k
    BY <1>1, <2>2 DEF Inv, Clients, ClientTypes, ClientsWired, createInstance, autoReconnect, Inst
  <2> QED BY <2>1, <2>2
<1>4. ClientsWired'
  BY <1>3 DEF ClientsWired
<1>5. \A j \in Inst : sock[j] = "open" => sock'[j] = "open"
  BY <1>1 DEF Inv, Clients, ClientTypes, createInstance
<1>6. OkMeansConnected'
  BY <1>5 DEF Inv, Clients, OkMeansConnected
<1>7. Calls'
  BY <1>5, <1>1, CallsFrame DEF Inv, Inst
<1> QED BY <1>2, <1>4, <1>6, <1>7 DEF Clients

LEMMA LoseKeeps ==
  ASSUME Inv, NEW k \in Inst, Lose(k), sock[k] \in {"connecting", "open"}, UNCHANGED <<made, instance>>
  PROVE  ClientTypes' /\ ClientsWired' /\ k <= made
<1>1. k <= made
  BY DEF Inv, Clients, ClientsWired, ClientTypes, Inst
<1>2. ClientTypes'
  BY DEF Inv, Clients, ClientTypes, Lose
<1>3. ClientsWired'
  BY <1>1 DEF Inv, Clients, ClientTypes, ClientsWired, Lose, Inst
<1> QED BY <1>1, <1>2, <1>3

LEMMA OpensKeeps ==
  ASSUME Inv, NEW k \in Inst, ClientOpens(k)
  PROVE  Inv'
<1>1. k <= made
  BY DEF ClientOpens, Inv, Clients, ClientsWired, ClientTypes, Inst
<1>2. ClientTypes' /\ RestTypes'
  BY DEF ClientOpens, Inv, Clients, ClientTypes, RestTypes, walletVars
<1>3. ClientsWired'
  BY <1>1 DEF ClientOpens, Inv, Clients, ClientTypes, ClientsWired, Inst
<1>4. sock'[k] = "open" /\ \A j \in Inst : sock[j] = "open" => sock'[j] = "open"
  BY DEF ClientOpens, Inv, Clients, ClientTypes
<1>5. OkMeansConnected'
  BY <1>4 DEF OkMeansConnected
<1>6. Calls'
  BY <1>4, CallsFrame DEF ClientOpens, Inv
<1>7. ReplacedOnce'
  BY DEF ClientOpens, Inv, ReplacedOnce
<1> QED BY <1>2, <1>3, <1>5, <1>6, <1>7 DEF Inv, Clients

LEMMA FailsKeeps ==
  ASSUME Inv, NEW k \in Inst, ClientFails(k)
  PROVE  Inv'
<1>1. ClientTypes' /\ ClientsWired'
  BY LoseKeeps DEF ClientFails
<1>2. \A j \in Inst : sock[j] = "open" => sock'[j] = "open"
  BY DEF ClientFails, Lose, Inv, Clients, ClientTypes
<1>3. OkMeansConnected'
  BY <1>2 DEF ClientFails, Inv, Clients, OkMeansConnected
<1>4. Calls'
  BY <1>2, CallsFrame DEF ClientFails, Inv
<1>5. RestTypes' /\ ReplacedOnce'
  BY DEF ClientFails, Inv, ReplacedOnce, RestTypes, walletVars
<1> QED BY <1>1, <1>3, <1>4, <1>5 DEF Inv, Clients

LEMMA ClosesKeeps ==
  ASSUME Inv, NEW k \in Inst, ClientCloses(k), faults' \in 0..MaxFaults
  PROVE  Inv'
<1>1. ClientTypes' /\ ClientsWired' /\ k <= made
  BY LoseKeeps DEF ClientCloses
<1>2. reconn[k] = 1 /\ onClose[k] > 0
  BY <1>1 DEF Inv, Clients, ClientTypes, ClientsWired
<1>3. timers' = timers + 1 /\ closes' = closes + 1 /\ status' = "Disconnected"
  BY <1>2 DEF ClientCloses
<1>4. RestTypes' /\ OkMeansConnected'
  BY <1>3 DEF ClientCloses, Inv, RestTypes, walletVars, OkMeansConnected
<1>5. ReplacedOnce'
  <2>1. instance # 0 /\ UNCHANGED <<made, instance>> /\ made \in Nat
    BY <1>1 DEF ClientCloses, Inv, Clients, ClientTypes, ClientsWired, Inst
  <2> QED BY <1>3, <2>1 DEF Inv, RestTypes, ReplacedOnce
<1>6. CallTypes'
  BY DEF ClientCloses, Inv, Calls, CallTypes, InFlight, Settled
<1>7. ASSUME NEW c \in Call PROVE Counted(c)'
  <2>1. Counted(c) /\ pc[c] \in {"idle", "delay"} \cup InFlight \cup Settled
    BY DEF Inv, Calls, Account, CallTypes
  <2>2. CASE pc[c] \in InFlight /\ on[c] = k
    <3>1. pc'[c] = "lost"
      BY <2>2 DEF ClientCloses
    <3>2. exec[c] <= i[c] + 1
      BY <2>1, <2>2 DEF Counted, Inv, Calls, CallTypes, InFlight
    <3> QED BY <2>1, <2>2, <3>1, <3>2 DEF Counted, ClientCloses, InFlight
  <2>3. CASE ~(pc[c] \in InFlight /\ on[c] = k)
    <3>1. pc'[c] = pc[c]
      BY <2>3 DEF ClientCloses
    <3>2. pc[c] \in InFlight => sock'[on[c]] = sock[on[c]]
      BY <2>1, <2>3 DEF ClientCloses, Lose, Inv, Clients, ClientTypes, Counted
    <3> QED BY <2>1, <3>1, <3>2 DEF Counted, ClientCloses
  <2> QED BY <2>2, <2>3
<1> QED BY <1>1, <1>4, <1>5, <1>6, <1>7 DEF Inv, Clients, Calls, Account

-------------------------------------------------------------------------------
(* The calls: what changes one call and accounts for it keeps the others.  *)
LEMMA OneCall ==
  ASSUME Inv, NEW c \in Call, CallTypes', Counted(c)',
         UNCHANGED <<sock, instance>>,
         \A d \in Call : d # c => /\ pc'[d] = pc[d] /\ i'[d] = i[d]
                                  /\ on'[d] = on[d] /\ exec'[d] = exec[d]
  PROVE  Calls'
<1>1. ASSUME NEW d \in Call PROVE Counted(d)'
  <2>1. CASE d = c
    BY <2>1
  <2>2. CASE d # c
    BY <2>2 DEF Inv, Calls, Account, Counted
  <2> QED BY <2>1, <2>2
<1> QED BY <1>1 DEF Calls, Account

(* An attempt within the limit.                                            *)
LEMMA AttemptKeeps ==
  ASSUME Inv, NEW c \in Call, NEW n \in 0..(MaxRetries - 1), Attempt(c, n), instance # 0,
         exec[c] <= n, op' \in [Call -> Operation], UNCHANGED <<exec, sock, instance>>
  PROVE  Calls'
<1>1. instance \in Inst
  BY DEF Inv, Clients, ClientTypes, Inst
<1>2. CASE sock[instance] = "open"
  <2>1. /\ pc' = [pc EXCEPT ![c] = "sent"]
        /\ i' = [i EXCEPT ![c] = n]
        /\ on' = [on EXCEPT ![c] = instance]
    BY <1>2 DEF Attempt
  <2>2. CallTypes'
    BY <2>1, <1>1 DEF Inv, Calls, CallTypes, InFlight, Inst
  <2>3. Counted(c)'
    BY <2>1, <1>1, <1>2 DEF Inv, Calls, CallTypes, Counted, InFlight
  <2> QED BY <2>1, <2>2, <2>3, OneCall DEF Inv, Calls, CallTypes
<1>3. CASE sock[instance] # "open"
  <2>1. /\ pc' = [pc EXCEPT ![c] = IF n = MaxRetries - 1 THEN "error" ELSE "delay"]
        /\ i' = [i EXCEPT ![c] = n]
        /\ on' = on
    BY <1>3 DEF Attempt, Rejected
  <2>2. CallTypes'
    BY <2>1 DEF Inv, Calls, CallTypes, Settled
  <2>3. Counted(c)'
    BY <2>1 DEF Inv, Calls, CallTypes, Counted, InFlight
  <2> QED BY <2>1, <2>2, <2>3, OneCall DEF Inv, Calls, CallTypes
<1> QED BY <1>2, <1>3

(* A step of a call that leaves connection and form alone.                 *)
LEMMA CallStep ==
  ASSUME Inv, UNCHANGED <<rpcVars, operationType>>, dropdown' \in {"open", "closed"}, Calls'
  PROVE  Inv'
<1>1. Clients'
  BY ClientsFrame DEF Inv, rpcVars
<1>2. RestTypes' /\ ReplacedOnce'
  BY DEF Inv, rpcVars, RestTypes, ReplacedOnce
<1> QED BY <1>1, <1>2 DEF Inv

LEMMA ServerRunsKeeps ==
  ASSUME Inv, NEW c \in Call, ServerRuns(c)
  PROVE  Calls'
<1>1. UNCHANGED <<i, on, op, sock, instance>> /\ pc[c] = "sent"
  BY DEF ServerRuns, rpcVars, clientVars
<1>2. PICK r \in {"ran", "failed"}, e \in {exec[c], exec[c] + 1} :
        /\ pc' = [pc EXCEPT ![c] = r] /\ exec' = [exec EXCEPT ![c] = e]
        /\ r = "ran" => e = exec[c] + 1
  BY DEF ServerRuns, Inv, Calls, CallTypes
<1>3. CallTypes'
  BY <1>1, <1>2 DEF Inv, Calls, CallTypes, InFlight
<1>4. Counted(c)
  BY DEF Inv, Calls, Account
<1>5. Counted(c)'
  BY <1>1, <1>2, <1>4 DEF Inv, Calls, CallTypes, Counted, InFlight
<1> QED BY <1>1, <1>2, <1>3, <1>5, OneCall DEF Inv, Calls, CallTypes

LEMMA AnsweredKeeps ==
  ASSUME Inv, NEW c \in Call, Answered(c)
  PROVE  Calls'
<1>1. /\ UNCHANGED <<i, on, op, exec, sock, instance>> /\ pc[c] = "ran"
      /\ pc' = [pc EXCEPT ![c] = "ok"]
  BY DEF Answered, rpcVars, clientVars
<1>2. CallTypes'
  BY <1>1 DEF Inv, Calls, CallTypes, Settled
<1>3. Counted(c)
  BY DEF Inv, Calls, Account
<1>4. Counted(c)'
  BY <1>1, <1>3 DEF Inv, Calls, CallTypes, Counted, InFlight
<1> QED BY <1>1, <1>2, <1>4, OneCall DEF Inv, Calls, CallTypes

LEMMA RefusedKeeps ==
  ASSUME Inv, NEW c \in Call, Refused(c)
  PROVE  Calls'
<1>1. /\ UNCHANGED <<on, op, exec, sock, instance>> /\ pc[c] = "failed"
      /\ pc' = [pc EXCEPT ![c] = IF i[c] = MaxRetries - 1 THEN "error" ELSE "delay"]
      /\ i' = [i EXCEPT ![c] = i[c]]
  BY DEF Refused, Rejected, rpcVars, clientVars
<1>2. CallTypes'
  BY <1>1 DEF Inv, Calls, CallTypes, Settled
<1>3. Counted(c)
  BY DEF Inv, Calls, Account
<1>4. Counted(c)'
  BY <1>1, <1>3 DEF Inv, Calls, CallTypes, Counted, InFlight
<1> QED BY <1>1, <1>2, <1>4, OneCall DEF Inv, Calls, CallTypes

-------------------------------------------------------------------------------
LEMMA NextInv == Inv /\ [Next]_vars => Inv'
<1> SUFFICES ASSUME Inv, [Next]_vars PROVE Inv'
  OBVIOUS
<1>1. CASE RpcStatusMount
  <2>1. made = 0 /\ made < MaxInstances
    BY <1>1 DEF RpcStatusMount, Inv, Clients, ClientsWired
  <2>2. /\ createInstance(made + 1, 2, 1) /\ autoReconnect(made + 1)
        /\ made' = made + 1 /\ instance' = made + 1 /\ UNCHANGED <<status, callVars>>
    BY <1>1, <2>1 DEF RpcStatusMount
  <2>3. Clients' /\ Calls'
    BY <2>1, <2>2, CreateKeeps
  <2>4. RestTypes' /\ UNCHANGED <<timers, closes>>
    BY <1>1 DEF RpcStatusMount, Inv, RestTypes, walletVars
  <2>5. ReplacedOnce'
    BY <1>1, <2>4 DEF RpcStatusMount, Inv, ReplacedOnce
  <2> QED BY <2>3, <2>4, <2>5 DEF Inv
<1>2. CASE Reconnect
  <2>1. Clients' /\ Calls'
    BY <1>2, CreateKeeps DEF Reconnect
  <2>2. RestTypes'
    BY <1>2 DEF Reconnect, Inv, RestTypes, walletVars
  <2>3. made' = made + 1 /\ instance' = made + 1 /\ timers' = timers - 1 /\ closes' = closes
    BY <1>2 DEF Reconnect
  <2>4. made \in Nat /\ instance # 0
    BY <1>2 DEF Reconnect, Inv, Clients, ClientTypes, RestTypes, ReplacedOnce
  <2>5. ReplacedOnce'
    BY <2>3, <2>4 DEF Inv, RestTypes, ReplacedOnce
  <2> QED BY <2>1, <2>2, <2>5 DEF Inv
<1>3. CASE ServerStops \/ ServerStarts
  <2>1. UNCHANGED <<clientVars, made, instance, timers, closes, status, callVars, walletVars>>
    BY <1>3 DEF ServerStops, ServerStarts
  <2>2. Clients'
    BY <2>1, ClientsFrame DEF Inv
  <2>3. Calls'
    BY <2>1, CallsFrame DEF Inv, clientVars
  <2>4. RestTypes'
    BY <1>3 DEF ServerStops, ServerStarts, Inv, RestTypes, walletVars
  <2>5. ReplacedOnce'
    BY <2>1 DEF Inv, ReplacedOnce
  <2> QED BY <2>2, <2>3, <2>4, <2>5 DEF Inv
<1>4. ASSUME NEW k \in Inst, ClientOpens(k) PROVE Inv'
  BY <1>4, OpensKeeps
<1>5. ASSUME NEW k \in Inst, ClientFails(k) PROVE Inv'
  BY <1>5, FailsKeeps
<1>6. ASSUME NEW k \in Inst, ServerGone(k) \/ Drop(k) PROVE Inv'
  <2>1. ClientCloses(k) /\ faults' \in 0..MaxFaults
    BY <1>6 DEF ServerGone, Drop, Inv, RestTypes
  <2> QED BY <2>1, ClosesKeeps
<1>7. ASSUME NEW c \in Call, Submit(c) PROVE Inv'
  <2>1. Counted(c) /\ exec[c] <= 0
    BY <1>7 DEF Submit, Inv, Calls, CallTypes, Account, Counted
  <2>2. op' \in [Call -> Operation]
    BY <1>7 DEF Submit, Inv, Calls, CallTypes, RestTypes
  <2>3. Calls'
    BY <1>7, <2>1, <2>2, AttemptKeeps DEF Submit, rpcVars, clientVars
  <2> QED BY <1>7, <2>3, CallStep DEF Submit, walletVars, Inv, RestTypes
<1>8. ASSUME NEW c \in Call, Retry(c) PROVE Inv'
  <2>1. Counted(c)
    BY DEF Inv, Calls, Account
  <2>2. i[c] + 1 \in 0..(MaxRetries - 1) /\ exec[c] <= i[c] + 1 /\ instance # 0
    BY <1>8, <2>1 DEF Retry, Inv, Calls, CallTypes, Counted
  <2>3. Calls'
    BY <1>8, <2>2, AttemptKeeps DEF Retry, rpcVars, clientVars, Inv, Calls, CallTypes
  <2> QED BY <1>8, <2>3, CallStep DEF Retry, walletVars, Inv, RestTypes
<1>9. ASSUME NEW c \in Call, ServerRuns(c) PROVE Inv'
  BY <1>9, ServerRunsKeeps, CallStep DEF ServerRuns, walletVars, Inv, RestTypes
<1>10. ASSUME NEW c \in Call, Answered(c) PROVE Inv'
  BY <1>10, AnsweredKeeps, CallStep DEF Answered
<1>11. ASSUME NEW c \in Call, Refused(c) PROVE Inv'
  BY <1>11, RefusedKeeps, CallStep DEF Refused, walletVars, Inv, RestTypes
<1>12. ASSUME NEW type \in Operation, handleAddWithdrawClick(type) PROVE Inv'
  <2>1. UNCHANGED <<rpcVars, callVars>>
    BY <1>12 DEF handleAddWithdrawClick
  <2>2. Clients' /\ Calls'
    BY <2>1, ClientsFrame, CallsFrame DEF Inv, rpcVars, clientVars
  <2>3. RestTypes' /\ ReplacedOnce'
    BY <1>12, <2>1 DEF handleAddWithdrawClick, Inv, rpcVars, RestTypes, ReplacedOnce
  <2> QED BY <2>2, <2>3 DEF Inv
<1>13. CASE UNCHANGED vars
  <2>1. Clients' /\ Calls'
    BY <1>13, ClientsFrame, CallsFrame DEF Inv, vars, rpcVars, clientVars
  <2>2. RestTypes' /\ ReplacedOnce'
    BY <1>13 DEF vars, rpcVars, walletVars, Inv, RestTypes, ReplacedOnce
  <2> QED BY <2>1, <2>2 DEF Inv
<1> QED
  BY <1>1, <1>2, <1>3, <1>4, <1>5, <1>6, <1>7, <1>8, <1>9, <1>10, <1>11, <1>12, <1>13 DEF Next

-------------------------------------------------------------------------------
(***************************************************************************)
(* The inductive invariant IInv, with the types.                           *)
(***************************************************************************)
THEOREM Invariance == Spec => [](TypeOK /\ IInv)
<1>1. Init => Inv
  BY InitInv
<1>2. Inv /\ [Next]_vars => Inv'
  BY NextInv
<1>3. Inv => TypeOK /\ IInv
  BY InvIs
<1> QED BY <1>1, <1>2, <1>3, PTL DEF Spec

(***************************************************************************)
(* Every variable keeps its type; no attempt is made beyond maxRetries and *)
(* no client beyond those the reconnect timers asked for: TypeOK.          *)
(***************************************************************************)
THEOREM TypeCorrect == Spec => []TypeOK
BY Invariance, PTL

(***************************************************************************)
(* Every lost connection is replaced exactly once (autoReconnect), however *)
(* many clients there are: ReplacedOnce.                                   *)
(***************************************************************************)
THEOREM ReplacedOnceAlways == Spec => []ReplacedOnce
<1>1. IInv => ReplacedOnce
  BY DEF IInv
<1> QED BY <1>1, Invariance, PTL

(***************************************************************************)
(* "RPC: OK" is shown only while some client is connected (RpcStatus,      *)
(* createInstance): OkMeansConnected.                                      *)
(***************************************************************************)
THEOREM OkMeansConnectedAlways == Spec => []OkMeansConnected
<1>1. IInv => OkMeansConnected
  BY DEF IInv
<1> QED BY <1>1, Invariance, PTL

(***************************************************************************)
(* What the wallet form reports of a call is what happened to it, for any  *)
(* number of calls and attempts (RibsRPC.call): CallAccounting.            *)
(***************************************************************************)
THEOREM CallAccountingAlways == Spec => []CallAccounting
<1>1. IInv => CallAccounting
  BY DEF IInv
<1> QED BY <1>1, Invariance, PTL
===============================================================================
