--------------------------- MODULE RouterKitProofs ---------------------------
(***************************************************************************)
(* The kits, the caches and the answers speak of one Router, and what was  *)
(* prepared for a day holds for the day, for any number of kits, calls,    *)
(* accounts and Routers.                                                   *)
(***************************************************************************)
EXTENDS RouterKit, TLAPS

Used == \E k \in Kits : router[k] # none

Allowance == [amount : Int, expiration : Int, nonce : Nat]
AllowancesTyped == allowances \in [Accounts -> [Routers -> [Tokens -> Allowance]]]

\* A call under way has what its next step needs; one that has its agent has it cached.
GoodCall(s) ==
    /\ s.pc \in {"agent", "address"} => s.asked # none
    /\ s.pc \in {"agent", "address", "permit2", "allowance", "prepared"} => s.kit \in Kits
    /\ s.pc = "address" => s.op \in Addresses \cup Preparing
    /\ s.pc = "agent" => s.op \in Preparing /\ s.account \in Accounts
    /\ s.pc \in {"permit2", "allowance", "prepared"} \/ (s.pc = "address" /\ s.op \in Preparing) =>
         s.op \in Preparing /\ s.account \in Accounts /\ s.agent # none /\ agentMap[s.account] # none

GoodCalls == \A c \in Calls : GoodCall(calls[c])

\* Until the Router is moved under a kit, an outstanding read is about the configured one.
AsksOneRouter == ~readdressed => \A c \in Calls : calls[c].asked \in {none, contractAddress}

\* Before the first use nothing is known: the Router may still be configured.
UnusedIsEmpty ==
    ~Used => /\ \A x \in Addresses : addressMap[x] = none
             /\ \A a \in Accounts : agentMap[a] = none
             /\ \A c \in Calls : calls[c].asked = none /\ calls[c].agent = none

IInv == /\ TypeOK /\ AllowancesTyped /\ GoodCalls
        /\ OneRouter /\ AsksOneRouter /\ UnusedIsEmpty /\ FundsArrive

-----------------------------------------------------------------------------
\* What a call starts from is well typed.
LEMMA NewCallTyped == NewCall \in CallStates
<1>1. 0 \in 0..(MaxTime + PERMIT_SIG_DEADLINE) /\ 0 \in 0..(MaxTime + PERMIT_EXPIRATION) /\ 0 \in 0..MaxTime
  BY DeadlineAssumption
<1>2. {} \in SUBSET Tokens /\ {} \in SUBSET (Tokens \X Nat)
  OBVIOUS
<1> QED
  BY <1>1, <1>2 DEF NewCall, CallStates, Cached

\* The initial states satisfy the invariant.
LEMMA InitIInv == Init => IInv
<1> SUFFICES ASSUME Init PROVE IInv
  OBVIOUS
<1>1. NewCall \in CallStates
  BY NewCallTyped
<1> USE RouterAssumption, DeadlineAssumption DEF Init
<1>2. TypeOK
  <2>1. now \in 0..MaxTime /\ contractAddress \in Routers
    OBVIOUS
  <2>2. router \in [Kits -> Cached] /\ addressMap \in [Addresses -> Cached] /\ agentMap \in [Accounts -> Cached]
    BY DEF Cached
  <2>3. permit2Known \in BOOLEAN /\ readdressed \in BOOLEAN
    OBVIOUS
  <2>4. calls \in [Calls -> CallStates]
    BY <1>1
  <2> QED
    BY <2>1, <2>2, <2>3, <2>4 DEF TypeOK
<1>3. AllowancesTyped
  BY AllowanceAssumption DEF AllowancesTyped, Allowance
<1>4. GoodCalls
  BY DEF GoodCalls, GoodCall, NewCall
<1>5. OneRouter /\ AsksOneRouter /\ UnusedIsEmpty /\ FundsArrive
  BY DEF OneRouter, AsksOneRouter, UnusedIsEmpty, FundsArrive, NewCall
<1> QED
  BY <1>2, <1>3, <1>4, <1>5 DEF IInv

\* RouterOf and UseRouter: a kit's Router, and that it is remembered.
LEMMA UsingARouter ==
    ASSUME IInv, NEW k \in Kits
    PROVE  /\ RouterOf(k) \in Routers /\ RouterOf(k) # none
           /\ ~readdressed => RouterOf(k) = contractAddress
           /\ UseRouter(k) => /\ router' \in [Kits -> Cached]
                              /\ Used'
                              /\ \A j \in Kits : router'[j] \in {router[j], RouterOf(k)}
<1> USE RouterAssumption DEF IInv, TypeOK, Cached
<1>1. RouterOf(k) \in Routers /\ RouterOf(k) # none
  BY DEF RouterOf
<1>2. ~readdressed => RouterOf(k) = contractAddress
  BY DEF RouterOf, OneRouter
<1>3. ASSUME UseRouter(k)
      PROVE  router' \in [Kits -> Cached] /\ Used' /\ \A j \in Kits : router'[j] \in {router[j], RouterOf(k)}
  BY <1>1, <1>3 DEF UseRouter, Used
<1> QED
  BY <1>1, <1>2, <1>3

\* AskAllowances: the deadline stays in its range and nothing else of note changes.
LEMMA AskingAllowances ==
    ASSUME IInv, NEW call \in CallStates
    PROVE  LET s == AskAllowances(call)
           IN  /\ s \in CallStates
               /\ s.pc \in {"allowance", "prepared"} /\ s.asked = none
               /\ s.op = call.op /\ s.kit = call.kit /\ s.account = call.account
               /\ s.agent = call.agent /\ s.payee = call.payee /\ s.executor = call.executor
<1>1. now + PERMIT_SIG_DEADLINE \in 0..(MaxTime + PERMIT_SIG_DEADLINE)
  BY DeadlineAssumption DEF IInv, TypeOK
<1> DEFINE pc == IF call.inputs = {} THEN "prepared" ELSE "allowance"
<1>2. pc \in {"allowance", "prepared"}
  OBVIOUS
<1>3. AskAllowances(call) = [call EXCEPT !.pc = pc, !.asked = none, !.deadline = now + PERMIT_SIG_DEADLINE]
  BY DEF AskAllowances
<1> HIDE DEF pc
<1> QED
  BY <1>1, <1>2, <1>3 DEF CallStates, Cached

\* GetPermit2Address: wherever it waits, the call keeps its agent and asks the one Router.
LEMMA GettingPermit2 ==
    ASSUME IInv, NEW c \in Calls, NEW call \in CallStates,
           call.op \in Preparing, call.kit \in Kits, Used,
           GetPermit2Address(c, call)
    PROVE  \E s \in CallStates :
             /\ calls' = [calls EXCEPT ![c] = s]
             /\ s.pc \in {"address", "permit2", "allowance", "prepared"}
             /\ s.op = call.op /\ s.kit = call.kit /\ s.account = call.account
             /\ s.agent = call.agent /\ s.payee = call.payee /\ s.executor = call.executor
             /\ s.pc = "address" => s.asked # none
             /\ ~readdressed => s.asked \in {none, contractAddress}
             /\ router' \in [Kits -> Cached] /\ Used'
             /\ ~readdressed => \A j \in Kits : router'[j] \in {none, contractAddress}
<1> USE RouterAssumption
<1>0. router \in [Kits -> Cached] /\ (~readdressed => \A j \in Kits : router[j] \in {none, contractAddress})
  BY DEF IInv, TypeOK, OneRouter
<1>1. CASE permit2Known /\ Put(c, AskAllowances(call)) /\ UNCHANGED router
  <2>1. Used' /\ router' \in [Kits -> Cached] /\ (~readdressed => \A j \in Kits : router'[j] \in {none, contractAddress})
    BY <1>0, <1>1 DEF Used
  <2> DEFINE s == AskAllowances(call)
  <2> HIDE DEF s
  <2>2. /\ s \in CallStates
        /\ s.pc \in {"allowance", "prepared"} /\ s.asked = none
        /\ s.op = call.op /\ s.kit = call.kit /\ s.account = call.account
        /\ s.agent = call.agent /\ s.payee = call.payee /\ s.executor = call.executor
    BY AskingAllowances DEF s
  <2>3. calls' = [calls EXCEPT ![c] = s]
    BY <1>1 DEF Put, s
  <2> QED
    BY <2>1, <2>2, <2>3
<1>2. CASE /\ ~permit2Known /\ addressMap["agentImplementation"] # none
           /\ Put(c, [call EXCEPT !.pc = "permit2", !.asked = addressMap["agentImplementation"]])
           /\ UNCHANGED router
  <2>1. Used' /\ router' \in [Kits -> Cached] /\ (~readdressed => \A j \in Kits : router'[j] \in {none, contractAddress})
    BY <1>0, <1>2 DEF Used
  <2>2. addressMap["agentImplementation"] \in Cached /\ (~readdressed => addressMap["agentImplementation"] \in {none, contractAddress})
    BY DEF IInv, TypeOK, OneRouter, Addresses
  <2> DEFINE s == [call EXCEPT !.pc = "permit2", !.asked = addressMap["agentImplementation"]]
  <2>3. s \in CallStates
    BY <2>2 DEF CallStates
  <2>4. /\ s.pc = "permit2" /\ s.asked = addressMap["agentImplementation"]
        /\ s.op = call.op /\ s.kit = call.kit /\ s.account = call.account
        /\ s.agent = call.agent /\ s.payee = call.payee /\ s.executor = call.executor
    BY DEF CallStates
  <2>5. calls' = [calls EXCEPT ![c] = s]
    BY <1>2 DEF Put
  <2> HIDE DEF s
  <2> QED
    BY <2>1, <2>2, <2>3, <2>4, <2>5
<1>3. CASE /\ Put(c, [call EXCEPT !.pc = "address", !.asked = RouterOf(call.kit)])
           /\ UseRouter(call.kit)
  <2>1. /\ RouterOf(call.kit) \in Cached /\ RouterOf(call.kit) # none
        /\ ~readdressed => RouterOf(call.kit) = contractAddress
        /\ router' \in [Kits -> Cached] /\ Used'
        /\ \A j \in Kits : router'[j] \in {router[j], RouterOf(call.kit)}
    BY <1>3, UsingARouter DEF Cached
  <2>2. ~readdressed => \A j \in Kits : router'[j] \in {none, contractAddress}
    BY <1>0, <2>1
  <2> DEFINE s == [call EXCEPT !.pc = "address", !.asked = RouterOf(call.kit)]
  <2>3. s \in CallStates
    BY <2>1 DEF CallStates
  <2>4. /\ s.pc = "address" /\ s.asked = RouterOf(call.kit)
        /\ s.op = call.op /\ s.kit = call.kit /\ s.account = call.account
        /\ s.agent = call.agent /\ s.payee = call.payee /\ s.executor = call.executor
    BY DEF CallStates
  <2>5. calls' = [calls EXCEPT ![c] = s]
    BY <1>3 DEF Put
  <2> HIDE DEF s
  <2> QED
    BY <2>1, <2>2, <2>3, <2>4, <2>5
<1> QED
  BY <1>1, <1>2, <1>3 DEF GetPermit2Address

-----------------------------------------------------------------------------
\* What every step of a call does to the rest: the Router stays, what is known is the one
\* Router's and is never forgotten.
Knows ==
    /\ UNCHANGED <<now, contractAddress, readdressed>>
    /\ router' \in [Kits -> Cached] /\ addressMap' \in [Addresses -> Cached]
    /\ permit2Known' \in BOOLEAN /\ agentMap' \in [Accounts -> Cached]
    /\ AllowancesTyped'
    /\ ~readdressed => /\ \A k \in Kits : router'[k] \in {none, contractAddress}
                       /\ \A x \in Addresses : addressMap'[x] \in {none, contractAddress}
                       /\ \A a \in Accounts : agentMap'[a] \in {none, contractAddress}
    /\ \A a \in Accounts : agentMap[a] # none => agentMap'[a] # none
    /\ Used => Used'
    /\ ~Used' => UNCHANGED <<addressMap, agentMap>>

\* The fields of a call the invariant is about.
SameFields(s, t) == /\ s.pc = t.pc /\ s.op = t.op /\ s.kit = t.kit /\ s.account = t.account
               /\ s.asked = t.asked /\ s.agent = t.agent
               /\ s.payee = t.payee /\ s.executor = t.executor

\* One call becomes s, the others stay but for their history.
LEMMA AStepOfACall ==
    ASSUME IInv, Knows, NEW c \in Calls, NEW s \in CallStates,
           calls' \in [Calls -> CallStates], calls'[c] = s,
           \A d \in Calls \ {c} : SameFields(calls'[d], calls[d]),
           GoodCall(s)', Used' \/ (s.asked = none /\ s.agent = none),
           ~readdressed => /\ s.asked \in {none, contractAddress}
                           /\ s.agent \in {none, contractAddress}
                           /\ s.payee = s.executor
    PROVE  IInv'
<1>1. TypeOK' /\ AllowancesTyped'
  BY DEF IInv, TypeOK, Knows
<1>2. GoodCalls'
  <2> SUFFICES ASSUME NEW d \in Calls PROVE GoodCall(calls[d])'
    BY DEF GoodCalls, GoodCall
  <2>1. CASE d = c
    BY <2>1 DEF GoodCall
  <2>2. CASE d # c
    <3>1. SameFields(calls'[d], calls[d]) /\ GoodCall(calls[d])
      BY <2>2 DEF IInv, GoodCalls
    <3> QED
      BY <3>1 DEF SameFields, GoodCall, Knows
  <2> QED
    BY <2>1, <2>2
<1>3. OneRouter' /\ AsksOneRouter' /\ FundsArrive'
  <2> SUFFICES ASSUME ~readdressed
               PROVE  OneRouter' /\ AsksOneRouter' /\ FundsArrive'
    BY DEF OneRouter, AsksOneRouter, FundsArrive, Knows
  <2>1. ASSUME NEW d \in Calls
        PROVE  /\ calls'[d].asked \in {none, contractAddress} /\ calls'[d].agent \in {none, contractAddress}
               /\ calls'[d].payee = calls'[d].executor
    <3>1. CASE d = c
      BY <3>1
    <3>2. CASE d # c
      BY <3>2 DEF SameFields, IInv, OneRouter, AsksOneRouter, FundsArrive
    <3> QED
      BY <3>1, <3>2
  <2> QED
    BY <2>1 DEF OneRouter, AsksOneRouter, FundsArrive, Knows
<1>4. UnusedIsEmpty'
  <2> SUFFICES ASSUME ~Used'
               PROVE  /\ \A x \in Addresses : addressMap'[x] = none
                      /\ \A a \in Accounts : agentMap'[a] = none
                      /\ \A d \in Calls : calls'[d].asked = none /\ calls'[d].agent = none
    BY DEF UnusedIsEmpty
  <2>1. /\ UNCHANGED <<addressMap, agentMap>>
        /\ \A x \in Addresses : addressMap[x] = none
        /\ \A a \in Accounts : agentMap[a] = none
        /\ \A d \in Calls : calls[d].asked = none /\ calls[d].agent = none
    BY DEF Knows, IInv, UnusedIsEmpty
  <2>2. ASSUME NEW d \in Calls
        PROVE  calls'[d].asked = none /\ calls'[d].agent = none
    BY <2>1 DEF SameFields
  <2> QED
    BY <2>1, <2>2
<1> QED
  BY <1>1, <1>2, <1>3, <1>4 DEF IInv

\* The usual case: nothing else changes in calls.
LEMMA ReplacingACall ==
    ASSUME IInv, Knows, NEW c \in Calls, NEW s \in CallStates,
           calls' = [calls EXCEPT ![c] = s],
           GoodCall(s)', Used' \/ (s.asked = none /\ s.agent = none),
           ~readdressed => /\ s.asked \in {none, contractAddress}
                           /\ s.agent \in {none, contractAddress}
                           /\ s.payee = s.executor
    PROVE  IInv'
<1>1. /\ calls' \in [Calls -> CallStates] /\ calls'[c] = s
      /\ \A d \in Calls \ {c} : SameFields(calls'[d], calls[d])
  BY DEF IInv, TypeOK, SameFields
<1> QED
  BY <1>1, AStepOfACall

\* The steps of a call, one by one.
LEMMA PermitStep ==
    ASSUME IInv, NEW c \in Calls, NEW call \in CallStates,
           call.op \in Preparing, call.kit \in Kits, call.account \in Accounts, call.agent # none,
           ~readdressed => call.agent = contractAddress /\ call.payee = call.executor,
           Used, GetPermit2Address(c, call),
           UNCHANGED <<now, contractAddress, readdressed, addressMap, permit2Known, allowances>>,
           agentMap' \in [Accounts -> Cached], agentMap'[call.account] # none,
           ~readdressed => \A a \in Accounts : agentMap'[a] \in {none, contractAddress},
           \A a \in Accounts : agentMap[a] # none => agentMap'[a] # none
    PROVE  IInv'
<1>1. PICK s \in CallStates :
             /\ calls' = [calls EXCEPT ![c] = s]
             /\ s.pc \in {"address", "permit2", "allowance", "prepared"}
             /\ s.op = call.op /\ s.kit = call.kit /\ s.account = call.account
             /\ s.agent = call.agent /\ s.payee = call.payee /\ s.executor = call.executor
             /\ s.pc = "address" => s.asked # none
             /\ ~readdressed => s.asked \in {none, contractAddress}
             /\ router' \in [Kits -> Cached] /\ Used'
             /\ ~readdressed => \A j \in Kits : router'[j] \in {none, contractAddress}
  BY GettingPermit2
<1>2. Knows
  BY <1>1 DEF Knows, IInv, TypeOK, OneRouter, AllowancesTyped
<1>3. GoodCall(s)'
  BY <1>1 DEF GoodCall
<1>4. /\ calls' \in [Calls -> CallStates] /\ calls'[c] = s
      /\ \A d \in Calls \ {c} : SameFields(calls'[d], calls[d])
  BY <1>1 DEF IInv, TypeOK, SameFields
<1> QED
  BY <1>1, <1>2, <1>3, <1>4, AStepOfACall

\* A call whose state has an asked Router or an agent has used a kit.
LEMMA KnownIsUsed ==
    ASSUME IInv, NEW c \in Calls, calls[c].asked # none \/ calls[c].agent # none
    PROVE  Used
BY DEF IInv, UnusedIsEmpty

\* Time passes.
LEMMA TickStep == ASSUME IInv, Tick PROVE IInv'
<1>1. TypeOK'
  BY DeadlineAssumption DEF IInv, TypeOK, Tick, caches
<1>2. AllowancesTyped' /\ GoodCalls'
  BY DEF IInv, Tick, caches, AllowancesTyped, GoodCalls, GoodCall
<1>3. OneRouter' /\ AsksOneRouter' /\ FundsArrive'
  BY DEF IInv, Tick, caches, OneRouter, AsksOneRouter, FundsArrive
<1>4. UnusedIsEmpty'
  BY DEF IInv, Tick, caches, UnusedIsEmpty, Used
<1> QED
  BY <1>1, <1>2, <1>3, <1>4 DEF IInv

\* The Router is moved: before the first use nothing is known yet, afterwards the history
\* says so.
LEMMA SetContractAddressStep ==
    ASSUME IInv, NEW r \in Routers, SetContractAddress(r) PROVE IInv'
<1> USE DEF SetContractAddress, caches
<1>1. TypeOK'
  BY DEF IInv, TypeOK
<1>2. AllowancesTyped' /\ GoodCalls'
  BY DEF IInv, AllowancesTyped, GoodCalls, GoodCall
<1>3. UnusedIsEmpty'
  BY DEF IInv, UnusedIsEmpty, Used
<1>4. OneRouter' /\ AsksOneRouter' /\ FundsArrive'
  <2> SUFFICES ASSUME ~readdressed'
               PROVE  OneRouter' /\ AsksOneRouter' /\ FundsArrive'
    BY DEF OneRouter, AsksOneRouter, FundsArrive
  <2>1. ~readdressed /\ ~Used
    BY DEF Used
  <2>2. OneRouter' /\ AsksOneRouter'
    BY <2>1 DEF IInv, UnusedIsEmpty, OneRouter, AsksOneRouter, Used
  <2> QED
    BY <2>1, <2>2 DEF IInv, FundsArrive
<1> QED
  BY <1>1, <1>2, <1>3, <1>4 DEF IInv

LEMMA GetAddressStep ==
    ASSUME IInv, NEW c \in Calls, NEW op \in Addresses, NEW k \in Kits, GetAddress(c, op, k)
    PROVE  IInv'
<1>1. CASE addressMap[op] # none
  <2>1. Used /\ addressMap[op] \in Cached /\ (~readdressed => addressMap[op] = contractAddress)
    BY <1>1 DEF IInv, UnusedIsEmpty, TypeOK, OneRouter
  <2>2. PICK s \in CallStates :
          /\ calls' = [calls EXCEPT ![c] = s]
          /\ s.pc = "done" /\ s.asked = none /\ s.agent = addressMap[op] /\ s.payee = none /\ s.executor = none
    <3> DEFINE s == [NewCall EXCEPT !.op = op, !.kit = k, !.pc = "done", !.agent = addressMap[op]]
    <3>1. s \in CallStates
      BY <2>1, NewCallTyped DEF CallStates
    <3>2. calls' = [calls EXCEPT ![c] = s]
      BY <1>1 DEF GetAddress, Put
    <3> QED
      BY <3>1, <3>2 DEF NewCall
  <2>3. Knows /\ Used'
    BY <1>1, <2>1 DEF Knows, GetAddress, caches, IInv, TypeOK, OneRouter, AllowancesTyped, Used
  <2>4. GoodCall(s)'
    BY <2>2 DEF GoodCall
  <2> QED
    BY <2>1, <2>2, <2>3, <2>4, ReplacingACall
<1>2. CASE addressMap[op] = none
  <2>1. /\ RouterOf(k) \in Cached /\ RouterOf(k) # none
        /\ ~readdressed => RouterOf(k) = contractAddress
        /\ router' \in [Kits -> Cached] /\ Used'
        /\ \A j \in Kits : router'[j] \in {router[j], RouterOf(k)}
    BY <1>2, UsingARouter DEF GetAddress, Cached
  <2>2. PICK s \in CallStates :
          /\ calls' = [calls EXCEPT ![c] = s]
          /\ s.pc = "address" /\ s.op = op /\ s.asked = RouterOf(k) /\ s.agent = none /\ s.kit = k
          /\ s.payee = none /\ s.executor = none
    <3> DEFINE s == [NewCall EXCEPT !.op = op, !.kit = k, !.pc = "address", !.asked = RouterOf(k)]
    <3>1. s \in CallStates
      BY <2>1, NewCallTyped DEF CallStates
    <3>2. calls' = [calls EXCEPT ![c] = s]
      BY <1>2 DEF GetAddress, Put
    <3> QED
      BY <3>1, <3>2 DEF NewCall
  <2>3. Knows
    BY <2>1 DEF Knows, GetAddress, caches, IInv, TypeOK, OneRouter, AllowancesTyped
  <2>4. GoodCall(s)'
    BY <2>1, <2>2 DEF GoodCall, Addresses, Preparing
  <2> QED
    BY <2>1, <2>2, <2>3, <2>4, ReplacingACall
<1> QED
  BY <1>1, <1>2

LEMMA PrepareStep ==
    ASSUME IInv, NEW c \in Calls, NEW op \in Preparing, NEW k \in Kits, NEW account \in Accounts,
           NEW inputs \in InputsAsked, Prepare(c, op, k, account, inputs)
    PROVE  IInv'
<1> DEFINE call == [NewCall EXCEPT !.op = op, !.kit = k, !.account = account, !.inputs = inputs]
<1>1. call \in CallStates
  BY NewCallTyped, InputsAssumption DEF CallStates
<1>2. /\ call.pc = "idle" /\ call.op = op /\ call.kit = k /\ call.account = account
      /\ call.asked = none /\ call.agent = none /\ call.payee = none /\ call.executor = none
  BY DEF NewCall
<1>3. \/ Put(c, [call EXCEPT !.pc = "done"]) /\ UNCHANGED router
      \/ agentMap[account] # none /\ GetPermit2Address(c, [call EXCEPT !.agent = agentMap[account]])
      \/ Put(c, [call EXCEPT !.pc = "agent", !.asked = RouterOf(k)]) /\ UseRouter(k)
  BY DEF Prepare
<1>4. UNCHANGED <<now, contractAddress, readdressed, addressMap, permit2Known, agentMap, allowances>>
  BY DEF Prepare, caches
<1>5. agentMap[account] \in Cached /\ (~readdressed => agentMap[account] \in {none, contractAddress})
  BY DEF IInv, TypeOK, OneRouter
<1> HIDE DEF call
<1>6. CASE Put(c, [call EXCEPT !.pc = "done"]) /\ UNCHANGED router
  <2>1. PICK s \in CallStates :
          /\ calls' = [calls EXCEPT ![c] = s]
          /\ s.pc = "done" /\ s.asked = none /\ s.agent = none /\ s.payee = none /\ s.executor = none
    <3>1. [call EXCEPT !.pc = "done"] \in CallStates
      BY <1>1 DEF CallStates
    <3> QED
      BY <1>1, <1>2, <1>6, <3>1 DEF Put, CallStates
  <2>2. Knows
    BY <1>4, <1>6 DEF Knows, IInv, TypeOK, OneRouter, AllowancesTyped, Used
  <2>3. GoodCall(s)'
    BY <2>1 DEF GoodCall
  <2> QED
    BY <2>1, <2>2, <2>3, ReplacingACall
<1>7. CASE agentMap[account] # none /\ GetPermit2Address(c, [call EXCEPT !.agent = agentMap[account]])
  <2>1. PICK s \in CallStates :
          /\ s = [call EXCEPT !.agent = agentMap[account]]
          /\ s.op = op /\ s.kit = k /\ s.account = account /\ s.agent = agentMap[account]
          /\ s.payee = none /\ s.executor = none
    <3>1. [call EXCEPT !.agent = agentMap[account]] \in CallStates
      BY <1>1, <1>5 DEF CallStates
    <3> QED
      BY <1>1, <1>2, <3>1 DEF CallStates
  <2>2. Used
    BY <1>7 DEF IInv, UnusedIsEmpty
  <2>3. GetPermit2Address(c, s)
    BY <1>7, <2>1
  <2>4. /\ agentMap' \in [Accounts -> Cached] /\ agentMap'[account] # none
        /\ ~readdressed => \A a \in Accounts : agentMap'[a] \in {none, contractAddress}
        /\ \A a \in Accounts : agentMap[a] # none => agentMap'[a] # none
    BY <1>4, <1>7 DEF IInv, TypeOK, OneRouter
  <2> QED
    BY <1>4, <1>5, <1>7, <2>1, <2>2, <2>3, <2>4, PermitStep
<1>8. CASE Put(c, [call EXCEPT !.pc = "agent", !.asked = RouterOf(k)]) /\ UseRouter(k)
  <2>1. /\ RouterOf(k) \in Cached /\ RouterOf(k) # none
        /\ ~readdressed => RouterOf(k) = contractAddress
        /\ router' \in [Kits -> Cached] /\ Used'
        /\ \A j \in Kits : router'[j] \in {router[j], RouterOf(k)}
    BY <1>8, UsingARouter DEF Cached
  <2>2. PICK s \in CallStates :
          /\ calls' = [calls EXCEPT ![c] = s]
          /\ s.pc = "agent" /\ s.op = op /\ s.kit = k /\ s.account = account /\ s.asked = RouterOf(k)
          /\ s.agent = none /\ s.payee = none /\ s.executor = none
    <3>1. [call EXCEPT !.pc = "agent", !.asked = RouterOf(k)] \in CallStates
      BY <1>1, <2>1 DEF CallStates
    <3> QED
      BY <1>1, <1>2, <1>8, <3>1 DEF Put, CallStates
  <2>3. Knows
    BY <1>4, <2>1 DEF Knows, IInv, TypeOK, OneRouter, AllowancesTyped
  <2>4. GoodCall(s)'
    BY <2>1, <2>2 DEF GoodCall
  <2> QED
    BY <2>1, <2>2, <2>3, <2>4, ReplacingACall
<1> QED
  BY <1>3, <1>6, <1>7, <1>8

\* The agent that is cached is the one of the Router asked, and the call's own.
LEMMA ReceiveAgentStep == ASSUME IInv, NEW c \in Calls, ReceiveAgent(c) PROVE IInv'
<1>1. /\ calls[c] \in CallStates /\ calls[c].pc = "agent" /\ calls[c].asked \in Cached /\ calls[c].asked # none
      /\ calls[c].kit \in Kits /\ calls[c].op \in Preparing /\ calls[c].account \in Accounts
      /\ ~readdressed => calls[c].asked = contractAddress /\ calls[c].payee = calls[c].executor
  BY DEF ReceiveAgent, IInv, TypeOK, CallStates, GoodCalls, GoodCall, AsksOneRouter, FundsArrive
<1>2. Used
  BY <1>1, KnownIsUsed
<1>3. PICK s \in CallStates :
        /\ s = [calls[c] EXCEPT !.agent = calls[c].asked]
        /\ s.op = calls[c].op /\ s.kit = calls[c].kit /\ s.account = calls[c].account
        /\ s.agent = calls[c].asked /\ s.payee = calls[c].payee /\ s.executor = calls[c].executor
  <2>1. [calls[c] EXCEPT !.agent = calls[c].asked] \in CallStates
    BY <1>1 DEF CallStates
  <2> QED
    BY <1>1, <2>1 DEF CallStates
<1>4. GetPermit2Address(c, s)
  BY <1>3 DEF ReceiveAgent
<1>5. /\ agentMap' \in [Accounts -> Cached] /\ agentMap'[calls[c].account] # none
      /\ ~readdressed => \A a \in Accounts : agentMap'[a] \in {none, contractAddress}
      /\ \A a \in Accounts : agentMap[a] # none => agentMap'[a] # none
  BY <1>1 DEF ReceiveAgent, IInv, TypeOK, OneRouter
<1>6. UNCHANGED <<now, contractAddress, readdressed, addressMap, permit2Known, allowances>>
  BY DEF ReceiveAgent
<1> QED
  BY <1>1, <1>2, <1>3, <1>4, <1>5, <1>6, PermitStep

LEMMA ReceiveAddressStep == ASSUME IInv, NEW c \in Calls, ReceiveAddress(c) PROVE IInv'
<1> DEFINE call == calls[c]
<1>1. /\ call \in CallStates /\ call.pc = "address" /\ call.asked \in Cached /\ call.asked # none
      /\ call.kit \in Kits /\ call.op \in Addresses \cup Preparing \cup {"none"}
      /\ ~readdressed => /\ call.asked = contractAddress /\ call.payee = call.executor
                         /\ call.agent \in {none, contractAddress}
  BY DEF ReceiveAddress, IInv, TypeOK, CallStates, GoodCalls, GoodCall, AsksOneRouter, FundsArrive, OneRouter
<1>2. call.op \in Preparing => call.account \in Accounts /\ call.agent # none /\ agentMap[call.account] # none
  BY <1>1 DEF IInv, GoodCalls, GoodCall
<1>3. Used
  BY <1>1, KnownIsUsed
<1> DEFINE name == IF call.op \in Addresses THEN call.op ELSE "agentImplementation"
<1>4. addressMap' = [addressMap EXCEPT ![name] = call.asked] /\ name \in Addresses
  BY DEF ReceiveAddress, Addresses
<1>5. /\ addressMap' \in [Addresses -> Cached]
      /\ ~readdressed => \A x \in Addresses : addressMap'[x] \in {none, contractAddress}
  <2> HIDE DEF name, call
  <2> QED
    BY <1>1, <1>4 DEF IInv, TypeOK, OneRouter
<1>6. Knows /\ Used'
  BY <1>3, <1>5 DEF Knows, ReceiveAddress, IInv, TypeOK, OneRouter, AllowancesTyped, Used
<1>7. CASE call.op \in Addresses
  <2>1. PICK s \in CallStates :
          /\ calls' = [calls EXCEPT ![c] = s]
          /\ s.pc = "done" /\ s.asked = none /\ s.agent = call.asked
          /\ s.payee = call.payee /\ s.executor = call.executor
    <3>1. [call EXCEPT !.pc = "done", !.agent = call.asked, !.asked = none] \in CallStates
      BY <1>1 DEF CallStates, Cached
    <3>2. calls' = [calls EXCEPT ![c] = [call EXCEPT !.pc = "done", !.agent = call.asked, !.asked = none]]
      BY <1>7 DEF ReceiveAddress, Put
    <3> QED
      BY <1>1, <3>1, <3>2 DEF CallStates
  <2>2. GoodCall(s)'
    BY <2>1 DEF GoodCall
  <2> HIDE DEF call
  <2> QED
    BY <1>1, <1>6, <2>1, <2>2, ReplacingACall
<1>8. CASE call.op \notin Addresses
  <2>1. PICK s \in CallStates :
          /\ calls' = [calls EXCEPT ![c] = s]
          /\ s.pc = "permit2" /\ s.op = call.op /\ s.kit = call.kit /\ s.account = call.account
          /\ s.asked = call.asked /\ s.agent = call.agent
          /\ s.payee = call.payee /\ s.executor = call.executor
    <3>1. [call EXCEPT !.pc = "permit2"] \in CallStates
      BY <1>1 DEF CallStates
    <3>2. calls' = [calls EXCEPT ![c] = [call EXCEPT !.pc = "permit2"]]
      BY <1>8 DEF ReceiveAddress, Put
    <3> QED
      BY <1>1, <3>1, <3>2 DEF CallStates
  <2>2. call.op \in Preparing
    BY <1>1, <1>8 DEF IInv, GoodCalls, GoodCall
  <2>3. agentMap' = agentMap
    BY DEF ReceiveAddress
  <2>4. GoodCall(s)'
    BY <1>1, <1>2, <2>1, <2>2, <2>3 DEF GoodCall
  <2> HIDE DEF call
  <2> QED
    BY <1>1, <1>6, <2>1, <2>4, ReplacingACall
<1> QED
  BY <1>7, <1>8

LEMMA ReceivePermit2Step == ASSUME IInv, NEW c \in Calls, ReceivePermit2(c) PROVE IInv'
<1>1. calls[c] \in CallStates /\ calls[c].pc = "permit2" /\ GoodCall(calls[c])
  BY DEF ReceivePermit2, IInv, TypeOK, GoodCalls
<1>2. ~readdressed => calls[c].payee = calls[c].executor /\ calls[c].agent \in {none, contractAddress}
  BY DEF IInv, FundsArrive, OneRouter
<1>3. Used
  BY <1>1, KnownIsUsed DEF GoodCall
<1>4. Knows /\ Used' /\ agentMap' = agentMap
  BY <1>3 DEF Knows, ReceivePermit2, IInv, TypeOK, OneRouter, AllowancesTyped, Used
<1>5. PICK s \in CallStates :
        /\ calls' = [calls EXCEPT ![c] = s]
        /\ s.pc \in {"allowance", "prepared"} /\ s.asked = none
        /\ s.op = calls[c].op /\ s.kit = calls[c].kit /\ s.account = calls[c].account
        /\ s.agent = calls[c].agent /\ s.payee = calls[c].payee /\ s.executor = calls[c].executor
  BY <1>1, AskingAllowances DEF ReceivePermit2, Put
<1>6. GoodCall(s)'
  BY <1>1, <1>4, <1>5 DEF GoodCall
<1> QED
  BY <1>2, <1>4, <1>5, <1>6, ReplacingACall

LEMMA ReceiveAllowancesStep == ASSUME IInv, NEW c \in Calls, ReceiveAllowances(c) PROVE IInv'
<1>1. calls[c] \in CallStates /\ calls[c].pc = "allowance" /\ GoodCall(calls[c])
  BY DEF ReceiveAllowances, IInv, TypeOK, GoodCalls
<1>2. ~readdressed => /\ calls[c].payee = calls[c].executor /\ calls[c].agent \in {none, contractAddress}
                      /\ calls[c].asked \in {none, contractAddress}
  BY DEF IInv, FundsArrive, OneRouter, AsksOneRouter
<1>3. Used
  BY <1>1, KnownIsUsed DEF GoodCall
<1>4. Knows /\ Used' /\ agentMap' = agentMap
  BY <1>3 DEF Knows, ReceiveAllowances, caches, IInv, TypeOK, OneRouter, AllowancesTyped, Used
<1>5. PICK s \in CallStates :
        /\ calls' = [calls EXCEPT ![c] = s]
        /\ s.pc = "prepared" /\ s.asked = calls[c].asked
        /\ s.op = calls[c].op /\ s.kit = calls[c].kit /\ s.account = calls[c].account
        /\ s.agent = calls[c].agent /\ s.payee = calls[c].payee /\ s.executor = calls[c].executor
  <2> DEFINE call == calls[c]
             of == allowances[call.account][call.agent]
             deadline == IF call.op = "permit" THEN call.deadline ELSE now + PERMIT_SIG_DEADLINE
             missing == {t \in call.inputs : Insufficient(of[t], deadline)}
             details == IF call.op = "permit" THEN {<<t, of[t].nonce>> : t \in missing} ELSE {}
             approvals == IF call.op = "approvals" THEN missing ELSE {}
             expiration == now + PERMIT_EXPIRATION
  <2>1. of \in [Tokens -> Allowance]
    BY <1>1 DEF IInv, AllowancesTyped, GoodCall, CallStates, Cached
  <2>2. missing \in SUBSET Tokens
    BY <1>1 DEF CallStates
  <2>3. approvals \in SUBSET Tokens
    BY <2>2
  <2>4. details \in SUBSET (Tokens \X Nat)
    <3> HIDE DEF of, missing
    <3> QED
      BY <2>1, <2>2 DEF Allowance
  <2>5. deadline \in 0..(MaxTime + PERMIT_SIG_DEADLINE) /\ expiration \in 0..(MaxTime + PERMIT_EXPIRATION)
    BY <1>1, DeadlineAssumption DEF IInv, TypeOK, CallStates
  <2>6. calls' = [calls EXCEPT ![c] = [call EXCEPT !.pc = "prepared", !.deadline = deadline,
                    !.expiration = expiration, !.details = details, !.approvals = approvals]]
    BY DEF ReceiveAllowances, Put
  <2> HIDE DEF deadline, missing, details, approvals, expiration
  <2>7. [call EXCEPT !.pc = "prepared", !.deadline = deadline, !.expiration = expiration,
           !.details = details, !.approvals = approvals] \in CallStates
    BY <1>1, <2>3, <2>4, <2>5 DEF CallStates
  <2> QED
    BY <1>1, <2>6, <2>7 DEF CallStates
<1>6. GoodCall(s)'
  BY <1>1, <1>4, <1>5 DEF GoodCall
<1> QED
  BY <1>2, <1>4, <1>5, <1>6, ReplacingACall

LEMMA RejectStep == ASSUME IInv, NEW c \in Calls, Reject(c) PROVE IInv'
<1>1. calls[c] \in CallStates /\ GoodCall(calls[c]) /\ calls[c].pc \in {"agent", "address", "permit2", "allowance"}
  BY DEF Reject, IInv, TypeOK, GoodCalls
<1>2. Knows
  BY DEF Knows, Reject, caches, IInv, TypeOK, OneRouter, AllowancesTyped, Used
<1>3. PICK s \in CallStates :
        /\ calls' = [calls EXCEPT ![c] = s]
        /\ s.pc = "rejected" /\ s.asked = none /\ s.agent = none /\ s.payee = none /\ s.executor = none
  <2>1. [NewCall EXCEPT !.pc = "rejected", !.op = calls[c].op] \in CallStates
    BY <1>1, NewCallTyped DEF CallStates
  <2>2. calls' = [calls EXCEPT ![c] = [NewCall EXCEPT !.pc = "rejected", !.op = calls[c].op]]
    BY DEF Reject, Put
  <2> QED
    BY <2>1, <2>2 DEF NewCall
<1>4. GoodCall(s)'
  BY <1>3 DEF GoodCall
<1> QED
  BY <1>2, <1>3, <1>4, ReplacingACall

\* A transaction marks the calls it disturbs and nothing else of them.
LEMMA Disturbing ==
    ASSUME IInv, NEW d \in Calls, NEW account, NEW tokens
    PROVE  /\ Disturb(account, tokens, calls[d]) \in CallStates
           /\ SameFields(Disturb(account, tokens, calls[d]), calls[d])
<1>1. calls[d] \in CallStates
  BY DEF IInv, TypeOK
<1> DEFINE disturbed == \/ calls[d].disturbed
                        \/ /\ calls[d].pc = "prepared" /\ calls[d].account = account
                           /\ calls[d].inputs \cap tokens # {}
<1>2. disturbed \in BOOLEAN
  BY <1>1 DEF CallStates
<1>3. Disturb(account, tokens, calls[d]) = [calls[d] EXCEPT !.disturbed = disturbed]
  BY <1>1 DEF Disturb, CallStates
<1> HIDE DEF disturbed
<1> QED
  BY <1>1, <1>2, <1>3 DEF CallStates, SameFields

LEMMA SendApprovalStep == ASSUME IInv, NEW c \in Calls, NEW t \in Tokens, SendApproval(c, t) PROVE IInv'
<1>1. /\ calls[c] \in CallStates /\ calls[c].pc = "prepared" /\ GoodCall(calls[c])
      /\ ~readdressed => /\ calls[c].payee = calls[c].executor /\ calls[c].agent \in {none, contractAddress}
                         /\ calls[c].asked \in {none, contractAddress}
  BY DEF SendApproval, IInv, TypeOK, GoodCalls, FundsArrive, OneRouter, AsksOneRouter
<1>2. Used
  BY <1>1, KnownIsUsed DEF GoodCall
<1>3. AllowancesTyped'
  <2>1. calls[c].account \in Accounts /\ calls[c].agent \in Routers /\ calls[c].expiration \in Int
    BY <1>1, DeadlineAssumption DEF GoodCall, CallStates, Cached
  <2>2. MaxUint160 \in Int
    BY AllowanceAssumption
  <2>3. [allowances[calls[c].account][calls[c].agent][t] EXCEPT !.amount = MaxUint160, !.expiration = calls[c].expiration] \in Allowance
    <3>1. allowances[calls[c].account][calls[c].agent][t] \in Allowance
      BY <2>1 DEF IInv, AllowancesTyped
    <3> QED
      BY <2>1, <2>2, <3>1 DEF Allowance
  <2>4. allowances' = [allowances EXCEPT ![calls[c].account][calls[c].agent][t] =
           [allowances[calls[c].account][calls[c].agent][t] EXCEPT !.amount = MaxUint160, !.expiration = calls[c].expiration]]
    BY <2>1 DEF SendApproval, IInv, AllowancesTyped
  <2> QED
    BY <2>1, <2>3, <2>4 DEF IInv, AllowancesTyped
<1>4. Knows /\ Used' /\ agentMap' = agentMap
  BY <1>2, <1>3 DEF Knows, SendApproval, caches, IInv, TypeOK, OneRouter, Used
<1>5. PICK s \in CallStates :
        /\ s = [calls[c] EXCEPT !.approvals = calls[c].approvals \ {t}]
        /\ SameFields(s, calls[c])
  <2>1. [calls[c] EXCEPT !.approvals = calls[c].approvals \ {t}] \in CallStates
    BY <1>1 DEF CallStates
  <2> QED
    BY <1>1, <2>1 DEF CallStates, SameFields
<1>6. calls' = [d \in Calls |-> IF d = c THEN s ELSE Disturb(calls[c].account, {t}, calls[d])]
  BY <1>1, <1>5 DEF SendApproval, CallStates
<1>7. /\ calls' \in [Calls -> CallStates] /\ calls'[c] = s
      /\ \A d \in Calls \ {c} : SameFields(calls'[d], calls[d])
  BY <1>6, Disturbing
<1>8. GoodCall(s)'
  BY <1>1, <1>4, <1>5 DEF GoodCall, SameFields
<1>9. ~readdressed => /\ s.asked \in {none, contractAddress} /\ s.agent \in {none, contractAddress}
                      /\ s.payee = s.executor
  BY <1>1, <1>5 DEF SameFields
<1> QED
  BY <1>4, <1>7, <1>8, <1>9, AStepOfACall

\* The agent that runs the transaction is of the kit's Router, the one that gets the funds
\* is the cached one: both are the configured Router's.
LEMMA ExecuteStep == ASSUME IInv, NEW c \in Calls, Execute(c) PROVE IInv'
<1> DEFINE call == calls[c]
           agent == RouterOf(call.kit)
           permitted == [allowances[call.account] EXCEPT ![call.agent] = Permitted(call)]
           valid == /\ call.details # {} => PermitValid(call)
                    /\ Transferable(call.inputs, permitted[agent])
           pc == IF valid THEN "executed" ELSE "reverted"
           result == [NewCall EXCEPT !.pc = pc, !.op = call.op,
                                     !.deadline = call.deadline, !.disturbed = call.disturbed,
                                     !.executor = agent, !.payee = Payee(call.account), !.when = now]
<1>1. /\ call \in CallStates /\ call.pc = "prepared" /\ GoodCall(call)
      /\ call.kit \in Kits /\ call.account \in Accounts /\ call.agent \in Routers
      /\ agentMap[call.account] # none
  BY DEF Execute, IInv, TypeOK, GoodCalls, GoodCall, CallStates, Cached
<1>2. /\ agent \in Routers /\ (~readdressed => agent = contractAddress)
      /\ router' \in [Kits -> Cached] /\ Used'
      /\ \A j \in Kits : router'[j] \in {router[j], agent}
  BY <1>1, UsingARouter DEF Execute
<1>3. permitted \in [Routers -> [Tokens -> Allowance]]
  <2>1. allowances[call.account] \in [Routers -> [Tokens -> Allowance]]
    BY <1>1 DEF IInv, AllowancesTyped
  <2>2. MaxUint160 \in Int /\ call.expiration \in Int
    BY <1>1, AllowanceAssumption, DeadlineAssumption DEF CallStates
  <2>3. Permitted(call) \in [Tokens -> Allowance]
    <3> DEFINE of(t) == allowances[call.account][call.agent][t]
               new(t) == [amount |-> MaxUint160, expiration |-> call.expiration, nonce |-> of(t).nonce + 1]
    <3>1. \A t \in Tokens : of(t) \in Allowance
      BY <1>1, <2>1
    <3>2. \A t \in Tokens : new(t) \in Allowance
      BY <2>2, <3>1 DEF Allowance
    <3>3. Permitted(call) = [t \in Tokens |-> IF t \in {d[1] : d \in call.details} THEN new(t) ELSE of(t)]
      BY DEF Permitted
    <3> HIDE DEF of, new
    <3> QED
      BY <3>1, <3>2, <3>3
  <2> QED
    BY <1>1, <2>1, <2>3
<1>4. Transferred(call.inputs, permitted[agent]) \in [Tokens -> Allowance]
  <2> DEFINE granted == permitted[agent]
  <2>1. granted \in [Tokens -> Allowance]
    BY <1>2, <1>3
  <2> HIDE DEF granted
  <2>2. \A t \in Tokens : [granted[t] EXCEPT !.amount = granted[t].amount - 1] \in Allowance
    BY <2>1 DEF Allowance
  <2>3. Transferred(call.inputs, granted) \in [Tokens -> Allowance]
    BY <2>1, <2>2 DEF Transferred, Allowance
  <2> QED
    BY <2>3 DEF granted
<1>5. /\ UseRouter(call.kit)
      /\ allowances' = IF ~valid THEN allowances
                       ELSE [allowances EXCEPT ![call.account] =
                               [permitted EXCEPT ![agent] = Transferred(call.inputs, permitted[agent])]]
      /\ calls' = [d \in Calls |-> IF d = c THEN result
                                   ELSE IF valid THEN Disturb(call.account, call.inputs, calls[d])
                                   ELSE calls[d]]
      /\ UNCHANGED <<now, contractAddress, caches, readdressed>>
  BY <1>1, <1>2, <1>3 DEF Execute
<1>6. pc \in {"executed", "reverted"}
  OBVIOUS
<1> HIDE DEF permitted, valid, agent, pc
<1>7. AllowancesTyped'
  BY <1>1, <1>2, <1>3, <1>4, <1>5 DEF IInv, AllowancesTyped
<1>8. Knows
  BY <1>2, <1>5, <1>7 DEF Knows, caches, IInv, TypeOK, OneRouter
<1>9. PICK s \in CallStates :
        /\ s = result
        /\ s.pc \in {"executed", "reverted"} /\ s.asked = none /\ s.agent = none
        /\ s.executor = agent /\ s.payee = agentMap[call.account]
  <2>1. agentMap[call.account] \in Cached /\ agent \in Cached /\ now \in 0..MaxTime
    BY <1>1, <1>2 DEF IInv, TypeOK, Cached
  <2>2. result \in CallStates
    BY <1>1, <1>6, <2>1, NewCallTyped DEF CallStates, Payee
  <2> QED
    BY <1>6, <2>2 DEF NewCall, Payee
<1>10. /\ calls' \in [Calls -> CallStates] /\ calls'[c] = s
       /\ \A d \in Calls \ {c} : SameFields(calls'[d], calls[d])
  <2>1. ASSUME NEW d \in Calls, d # c
        PROVE  calls'[d] \in CallStates /\ SameFields(calls'[d], calls[d])
    <3>1. calls'[d] = Disturb(call.account, call.inputs, calls[d]) \/ calls'[d] = calls[d]
      BY <1>5, <2>1
    <3> QED
      BY <3>1, Disturbing DEF IInv, TypeOK, SameFields
  <2>2. calls'[c] = s
    BY <1>5, <1>9
  <2>3. calls' = [d \in Calls |-> calls'[d]]
    BY <1>5
  <2>4. \A d \in Calls : calls'[d] \in CallStates
    BY <2>1, <2>2
  <2> QED
    BY <2>1, <2>2, <2>3, <2>4
<1>11. GoodCall(s)'
  BY <1>9 DEF GoodCall
<1>12. ~readdressed => s.payee = s.executor
  BY <1>1, <1>2, <1>9 DEF IInv, OneRouter
<1> QED
  BY <1>2, <1>8, <1>9, <1>10, <1>11, <1>12, AStepOfACall

-----------------------------------------------------------------------------
\* Every step of the kits and of the accounts preserves the invariant.
LEMMA NextIInv == IInv /\ [Next]_vars => IInv'
<1> SUFFICES ASSUME IInv, [Next]_vars PROVE IInv'
  OBVIOUS
<1>1. CASE Tick
  BY <1>1, TickStep
<1>2. ASSUME NEW r \in Routers, SetContractAddress(r) PROVE IInv'
  BY <1>2, SetContractAddressStep
<1>3. ASSUME NEW c \in Calls, NEW k \in Kits, NEW op \in Addresses, GetAddress(c, op, k) PROVE IInv'
  BY <1>3, GetAddressStep
<1>4. ASSUME NEW c \in Calls, NEW k \in Kits, NEW op \in Preparing, NEW a \in Accounts,
             NEW inputs \in InputsAsked, Prepare(c, op, k, a, inputs)
      PROVE  IInv'
  BY <1>4, PrepareStep
<1>5. ASSUME NEW c \in Calls, Receive(c) PROVE IInv'
  BY <1>5, ReceiveAgentStep, ReceiveAddressStep, ReceivePermit2Step, ReceiveAllowancesStep, RejectStep
     DEF Receive
<1>6. ASSUME NEW c \in Calls, NEW t \in Tokens, SendApproval(c, t) PROVE IInv'
  BY <1>6, SendApprovalStep
<1>7. ASSUME NEW c \in Calls, Execute(c) PROVE IInv'
  BY <1>7, ExecuteStep
<1>8. CASE UNCHANGED vars
  BY <1>8 DEF vars, caches, IInv, TypeOK, AllowancesTyped, GoodCalls, GoodCall, OneRouter, AsksOneRouter,
              UnusedIsEmpty, Used, FundsArrive
<1> QED
  BY <1>1, <1>2, <1>3, <1>4, <1>5, <1>6, <1>7, <1>8 DEF Next

\* The inductive invariant holds in every reachable state.
THEOREM IInvHolds == Spec => []IInv
BY InitIInv, NextIInv, PTL DEF Spec

\* Type correctness of the kits, the caches and the calls.
THEOREM TypeCorrect == Spec => []TypeOK
<1>1. IInv => TypeOK
  BY DEF IInv
<1> QED
  BY <1>1, IInvHolds, PTL

\* The caches, filled by any kit at any time, speak of the configured Router, as long as it
\* was configured before the first use.
THEOREM CachesShareOneRouter == Spec => []OneRouter
<1>1. IInv => OneRouter
  BY DEF IInv
<1> QED
  BY <1>1, IInvHolds, PTL

\* encodePermit2TransferFrom pays the agent whose Router runs the transaction, as long as
\* the Router was configured before its first use.
THEOREM InputsReachTheirAgent == Spec => []FundsArrive
<1>1. IInv => FundsArrive
  BY DEF IInv
<1> QED
  BY <1>1, IInvHolds, PTL

\* A cached agent stays: only an answer of calcAgent writes the map, for its own account.
THEOREM CachedAgentsStay == Spec => AgentsKept
<1> DEFINE Kept == \A a \in Accounts : agentMap[a] # none =>
                     agentMap'[a] # none /\ (agentMap'[a] = agentMap[a] \/ readdressed)
<1>1. IInv /\ [Next]_vars => [Kept]_agentMap
  <2> SUFFICES ASSUME IInv, [Next]_vars, agentMap' # agentMap PROVE Kept
    OBVIOUS
  <2>1. PICK c \in Calls : ReceiveAgent(c)
    <3>1. ~Tick /\ ~\E r \in Routers : SetContractAddress(r)
      BY DEF Tick, SetContractAddress, caches
    <3>2. \A c \in Calls : /\ ~Execute(c) /\ ~\E t \in Tokens : SendApproval(c, t)
                           /\ ~\E k \in Kits, op \in Addresses : GetAddress(c, op, k)
      BY DEF Execute, SendApproval, GetAddress, caches
    <3>3. ~\E c \in Calls, k \in Kits, op \in Preparing, a \in Accounts, inputs \in InputsAsked :
             Prepare(c, op, k, a, inputs)
      <4> SUFFICES ASSUME NEW c \in Calls, NEW k \in Kits, NEW op \in Preparing, NEW a \in Accounts,
                          NEW inputs \in InputsAsked, Prepare(c, op, k, a, inputs)
                   PROVE  FALSE
        OBVIOUS
      <4>1. UNCHANGED caches
        BY DEF Prepare
      <4> QED
        BY <4>1 DEF caches
    <3>4. Next
      BY DEF vars, caches
    <3>5. \E c \in Calls : Receive(c)
      BY <3>1, <3>2, <3>3, <3>4 DEF Next
    <3> QED
      BY <3>5 DEF Receive, ReceiveAddress, ReceivePermit2, ReceiveAllowances, Reject, caches
  <2>2. /\ calls[c].asked # none /\ calls[c].account \in Accounts
        /\ ~readdressed => calls[c].asked = contractAddress
    BY <2>1 DEF ReceiveAgent, IInv, GoodCalls, GoodCall, AsksOneRouter
  <2>3. agentMap' = [agentMap EXCEPT ![calls[c].account] = calls[c].asked]
    BY <2>1 DEF ReceiveAgent
  <2> QED
    BY <2>2, <2>3 DEF IInv, TypeOK, OneRouter
<1> QED
  BY <1>1, IInvHolds, PTL DEF Spec, AgentsKept

-----------------------------------------------------------------------------
(* What was prepared suffices for a day.                                    *)

\* The allowances still carry the nonces a permit was made for, and those that need
\* neither a permit nor an approval are good beyond the deadline.
Covered(s, of) ==
    /\ \A d \in s.details : of[d[1]].nonce = d[2]
    /\ \A t \in s.inputs : \/ t \in s.approvals
                           \/ \E d \in s.details : d[1] = t
                           \/ of[t].amount >= 1 /\ of[t].expiration > s.deadline

\* What call s may count on at a time, with the allowances granted then.
Promise(s, time, granted, moved) ==
    /\ s.pc \in {"agent", "address", "permit2", "allowance"} => s.details = {} /\ s.approvals = {}
    /\ s.pc = "allowance" => s.deadline <= time + PERMIT_SIG_DEADLINE
    /\ s.pc = "prepared" =>
         /\ \A d \in s.details : d[1] \in s.inputs
         /\ s.details # {} \/ s.approvals # {} => s.deadline < s.expiration
         /\ s.disturbed \/ Covered(s, granted[s.account][s.agent])
    /\ s.pc = "reverted" => s.when > s.deadline \/ s.disturbed \/ moved

Promises == \A c \in Calls : Promise(calls[c], now, allowances, readdressed)

\* Time and the allowances of others' inputs take nothing from a promise.
LEMMA PromiseKept ==
    ASSUME NEW s \in CallStates, NEW time \in Int, NEW later \in Int, time <= later,
           NEW granted, NEW after, NEW moved, NEW movedNow, moved => movedNow,
           Promise(s, time, granted, moved),
           s.pc = "prepared" => \A t \in s.inputs : after[s.account][s.agent][t] = granted[s.account][s.agent][t]
    PROVE  Promise(s, later, after, movedNow)
<1>1. s.deadline \in Int /\ PERMIT_SIG_DEADLINE \in Int
  BY DeadlineAssumption DEF CallStates
<1>2. s.pc = "allowance" => s.deadline <= later + PERMIT_SIG_DEADLINE
  BY <1>1 DEF Promise
<1>3. ASSUME s.pc = "prepared", Covered(s, granted[s.account][s.agent])
      PROVE  Covered(s, after[s.account][s.agent])
  <2> DEFINE of == granted[s.account][s.agent]
             now_of == after[s.account][s.agent]
  <2>1. \A t \in s.inputs : now_of[t] = of[t]
    BY <1>3
  <2>2. \A d \in s.details : d[1] \in s.inputs
    BY <1>3 DEF Promise
  <2> HIDE DEF of, now_of
  <2>3. Covered(s, of)
    BY <1>3 DEF of
  <2>4. Covered(s, now_of)
    BY <2>1, <2>2, <2>3 DEF Covered
  <2> QED
    BY <2>4 DEF now_of
<1> QED
  BY <1>2, <1>3 DEF Promise

\* A step that changes one call and no allowance.
LEMMA OnePromise ==
    ASSUME IInv, Promises, NEW c \in Calls, NEW s, calls' = [calls EXCEPT ![c] = s],
           UNCHANGED <<now, allowances, readdressed>>,
           Promise(s, now, allowances, readdressed)
    PROVE  Promises'
<1>1. ASSUME NEW d \in Calls PROVE Promise(calls'[d], now, allowances, readdressed)
  BY DEF Promises, IInv, TypeOK
<1> QED
  BY <1>1 DEF Promises

LEMMA AskingPromise ==
    ASSUME IInv, NEW call \in CallStates, call.details = {}, call.approvals = {}
    PROVE  Promise(AskAllowances(call), now, allowances, readdressed)
<1> DEFINE s == AskAllowances(call)
<1>1. /\ s.pc = IF call.inputs = {} THEN "prepared" ELSE "allowance"
      /\ s.details = {} /\ s.approvals = {} /\ s.inputs = call.inputs
      /\ s.deadline = now + PERMIT_SIG_DEADLINE
  BY DEF AskAllowances, CallStates
<1>2. now + PERMIT_SIG_DEADLINE <= now + PERMIT_SIG_DEADLINE
  BY DeadlineAssumption DEF IInv, TypeOK
<1> HIDE DEF s
<1>3. Promise(s, now, allowances, readdressed)
  BY <1>1, <1>2 DEF Promise, Covered
<1> QED
  BY <1>3 DEF s

LEMMA Permit2Promise ==
    ASSUME IInv, Promises, NEW c \in Calls, NEW call \in CallStates, call.details = {},
           call.approvals = {}, UNCHANGED <<now, allowances, readdressed>>,
           GetPermit2Address(c, call)
    PROVE  Promises'
<1> DEFINE Becomes(s) == calls' = [calls EXCEPT ![c] = s] /\ Promise(s, now, allowances, readdressed)
<1>1. CASE Put(c, AskAllowances(call))
  <2>1. Becomes(AskAllowances(call))
    BY <1>1, AskingPromise DEF Put
  <2> QED
    BY <2>1, OnePromise
<1>2. ASSUME NEW pc \in {"permit2", "address"}, NEW r, Put(c, [call EXCEPT !.pc = pc, !.asked = r])
      PROVE  Promises'
  <2>1. Becomes([call EXCEPT !.pc = pc, !.asked = r])
    BY <1>2 DEF Put, Promise, CallStates
  <2> QED
    BY <2>1, OnePromise
<1> QED
  BY <1>1, <1>2 DEF GetPermit2Address

LEMMA TickPromise == ASSUME IInv, Promises, Tick PROVE Promises'
<1>1. now \in Int /\ now' \in Int /\ now <= now' /\ UNCHANGED <<calls, allowances, readdressed>>
  BY DEF IInv, TypeOK, Tick
<1>2. ASSUME NEW c \in Calls PROVE Promise(calls[c], now', allowances, readdressed)
  <2>1. calls[c] \in CallStates /\ Promise(calls[c], now, allowances, readdressed)
    BY DEF IInv, TypeOK, Promises
  <2> QED
    BY <1>1, <2>1, PromiseKept
<1> QED
  BY <1>1, <1>2 DEF Promises

LEMMA SetContractAddressPromise ==
    ASSUME IInv, Promises, NEW r \in Routers, SetContractAddress(r) PROVE Promises'
<1>1. UNCHANGED <<now, calls, allowances>> /\ (readdressed => readdressed')
  BY DEF SetContractAddress
<1>2. ASSUME NEW c \in Calls PROVE Promise(calls[c], now, allowances, readdressed')
  <2>1. Promise(calls[c], now, allowances, readdressed)
    BY DEF Promises
  <2> QED
    BY <1>1, <2>1 DEF Promise
<1> QED
  BY <1>1, <1>2 DEF Promises

LEMMA GetAddressPromise ==
    ASSUME IInv, Promises, NEW c \in Calls, NEW op \in Addresses, NEW k \in Kits, GetAddress(c, op, k)
    PROVE  Promises'
<1>1. UNCHANGED <<now, allowances, readdressed>>
  BY DEF GetAddress
<1>2. CASE addressMap[op] # none
  <2> DEFINE s == [NewCall EXCEPT !.op = op, !.kit = k, !.pc = "done", !.agent = addressMap[op]]
  <2>1. calls' = [calls EXCEPT ![c] = s]
    BY <1>2 DEF GetAddress, Put
  <2>2. Promise(s, now, allowances, readdressed)
    BY DEF Promise, NewCall
  <2> QED
    BY <1>1, <2>1, <2>2, OnePromise
<1>3. CASE addressMap[op] = none
  <2> DEFINE s == [NewCall EXCEPT !.op = op, !.kit = k, !.pc = "address", !.asked = RouterOf(k)]
  <2>1. calls' = [calls EXCEPT ![c] = s]
    BY <1>3 DEF GetAddress, Put
  <2>2. Promise(s, now, allowances, readdressed)
    BY DEF Promise, NewCall
  <2> QED
    BY <1>1, <2>1, <2>2, OnePromise
<1> QED
  BY <1>2, <1>3

LEMMA PreparePromise ==
    ASSUME IInv, Promises, NEW c \in Calls, NEW op \in Preparing, NEW k \in Kits,
           NEW account \in Accounts, NEW inputs \in InputsAsked, Prepare(c, op, k, account, inputs)
    PROVE  Promises'
<1> DEFINE call == [NewCall EXCEPT !.op = op, !.kit = k, !.account = account, !.inputs = inputs]
<1>1. call \in CallStates
  BY NewCallTyped, InputsAssumption DEF CallStates
<1>2. call.details = {} /\ call.approvals = {}
  BY DEF NewCall
<1>3. \/ Put(c, [call EXCEPT !.pc = "done"])
      \/ GetPermit2Address(c, [call EXCEPT !.agent = agentMap[account]])
      \/ Put(c, [call EXCEPT !.pc = "agent", !.asked = RouterOf(k)])
  BY DEF Prepare
<1>4. UNCHANGED <<now, allowances, readdressed>>
  BY DEF Prepare
<1>5. agentMap[account] \in Cached
  BY DEF IInv, TypeOK
<1> HIDE DEF call
<1>6. CASE Put(c, [call EXCEPT !.pc = "done"])
  <2> DEFINE s == [call EXCEPT !.pc = "done"]
  <2>1. calls' = [calls EXCEPT ![c] = s] /\ Promise(s, now, allowances, readdressed)
    BY <1>1, <1>6 DEF Put, Promise, CallStates
  <2> QED
    BY <1>4, <2>1, OnePromise
<1>7. CASE GetPermit2Address(c, [call EXCEPT !.agent = agentMap[account]])
  <2> DEFINE s == [call EXCEPT !.agent = agentMap[account]]
  <2>1. s \in CallStates /\ s.details = {} /\ s.approvals = {}
    BY <1>1, <1>2, <1>5 DEF CallStates
  <2> HIDE DEF s
  <2>2. GetPermit2Address(c, s)
    BY <1>7 DEF s
  <2> QED
    BY <1>4, <2>1, <2>2, Permit2Promise
<1>8. CASE Put(c, [call EXCEPT !.pc = "agent", !.asked = RouterOf(k)])
  <2> DEFINE s == [call EXCEPT !.pc = "agent", !.asked = RouterOf(k)]
  <2>1. calls' = [calls EXCEPT ![c] = s] /\ Promise(s, now, allowances, readdressed)
    BY <1>1, <1>2, <1>8 DEF Put, Promise, CallStates
  <2> QED
    BY <1>4, <2>1, OnePromise
<1> QED
  BY <1>3, <1>6, <1>7, <1>8

LEMMA ReceivePromise ==
    ASSUME IInv, Promises, NEW c \in Calls,
           ReceiveAgent(c) \/ ReceiveAddress(c) \/ ReceivePermit2(c) \/ Reject(c)
    PROVE  Promises'
<1> DEFINE call == calls[c]
<1>1. /\ call \in CallStates /\ Promise(call, now, allowances, readdressed)
      /\ UNCHANGED <<now, allowances, readdressed>>
  BY DEF IInv, TypeOK, Promises, ReceiveAgent, ReceiveAddress, ReceivePermit2, Reject, caches
<1>2. call.pc \in {"agent", "address", "permit2"} => call.details = {} /\ call.approvals = {}
  BY <1>1 DEF Promise
<1>3. CASE ReceiveAgent(c)
  <2> DEFINE s == [call EXCEPT !.agent = call.asked]
  <2>1. s \in CallStates /\ s.details = {} /\ s.approvals = {}
    BY <1>1, <1>2, <1>3 DEF ReceiveAgent, CallStates
  <2>2. GetPermit2Address(c, s)
    BY <1>3 DEF ReceiveAgent
  <2> HIDE DEF s
  <2> QED
    BY <1>1, <2>1, <2>2, Permit2Promise
<1>4. CASE ReceiveAddress(c)
  <2> DEFINE s == IF call.op \in Addresses THEN [call EXCEPT !.pc = "done", !.agent = call.asked, !.asked = none]
                                           ELSE [call EXCEPT !.pc = "permit2"]
  <2>1. calls' = [calls EXCEPT ![c] = s]
    BY <1>4 DEF ReceiveAddress, Put
  <2>2. Promise(s, now, allowances, readdressed)
    BY <1>1, <1>2, <1>4 DEF ReceiveAddress, Promise, CallStates
  <2> QED
    BY <1>1, <2>1, <2>2, OnePromise
<1>5. CASE ReceivePermit2(c)
  <2>1. calls' = [calls EXCEPT ![c] = AskAllowances(call)]
    BY <1>5 DEF ReceivePermit2, Put
  <2>2. Promise(AskAllowances(call), now, allowances, readdressed)
    BY <1>1, <1>2, <1>5, AskingPromise DEF ReceivePermit2
  <2> QED
    BY <1>1, <2>1, <2>2, OnePromise
<1>6. CASE Reject(c)
  <2> DEFINE s == [NewCall EXCEPT !.pc = "rejected", !.op = calls[c].op]
  <2>1. calls' = [calls EXCEPT ![c] = s] /\ Promise(s, now, allowances, readdressed)
    BY <1>6 DEF Reject, Put, Promise, NewCall
  <2> QED
    BY <1>1, <2>1, OnePromise
<1> QED
  BY <1>3, <1>4, <1>5, <1>6

\* What is missing is permitted or approved; the rest is good beyond the deadline.
LEMMA ReceiveAllowancesPromise ==
    ASSUME IInv, Promises, NEW c \in Calls, ReceiveAllowances(c) PROVE Promises'
<1> DEFINE call == calls[c]
           of == allowances[call.account][call.agent]
           deadline == IF call.op = "permit" THEN call.deadline ELSE now + PERMIT_SIG_DEADLINE
           missing == {t \in call.inputs : Insufficient(of[t], deadline)}
           details == IF call.op = "permit" THEN {<<t, of[t].nonce>> : t \in missing} ELSE {}
           approvals == IF call.op = "approvals" THEN missing ELSE {}
           s == [call EXCEPT !.pc = "prepared", !.deadline = deadline,
                             !.expiration = now + PERMIT_EXPIRATION,
                             !.details = details, !.approvals = approvals]
<1>1. /\ call \in CallStates /\ call.pc = "allowance" /\ call.op \in Preparing
      /\ call.account \in Accounts /\ call.agent \in Routers
      /\ UNCHANGED <<now, allowances, readdressed>>
  BY DEF IInv, TypeOK, GoodCalls, GoodCall, ReceiveAllowances, CallStates, Cached
<1>2. calls' = [calls EXCEPT ![c] = s]
  BY DEF ReceiveAllowances, Put
<1>3. call.deadline <= now + PERMIT_SIG_DEADLINE
  BY <1>1 DEF Promises, Promise
<1>4. /\ deadline \in Int /\ now + PERMIT_EXPIRATION \in Int /\ deadline < now + PERMIT_EXPIRATION
  BY <1>1, <1>3, DeadlineAssumption DEF CallStates, IInv, TypeOK
<1>5. of \in [Tokens -> Allowance]
  BY <1>1 DEF IInv, AllowancesTyped
<1>6. call.inputs \subseteq Tokens
  BY <1>1 DEF CallStates
<1>7. /\ s.pc = "prepared" /\ s.deadline = deadline /\ s.expiration = now + PERMIT_EXPIRATION
      /\ s.details = details /\ s.approvals = approvals /\ s.inputs = call.inputs
      /\ s.account = call.account /\ s.agent = call.agent
  BY <1>1 DEF CallStates
<1>8. \A d \in details : d[1] \in call.inputs /\ of[d[1]].nonce = d[2]
  OBVIOUS
<1>9. ASSUME NEW t \in call.inputs
      PROVE  \/ t \in approvals
             \/ \E d \in details : d[1] = t
             \/ of[t].amount >= 1 /\ of[t].expiration > deadline
  <2>1. CASE t \in missing
    <3>1. CASE call.op = "permit"
      <4>1. <<t, of[t].nonce>> \in details
        BY <2>1, <3>1
      <4>2. <<t, of[t].nonce>>[1] = t
        OBVIOUS
      <4> QED
        BY <4>1, <4>2
    <3>2. CASE call.op = "approvals"
      BY <2>1, <3>2
    <3> QED
      BY <1>1, <3>1, <3>2 DEF Preparing
  <2>2. CASE t \notin missing
    <3>1. ~ Insufficient(of[t], deadline)
      BY <2>2
    <3>2. of[t].amount \in Int /\ of[t].expiration \in Int
      BY <1>5, <1>6 DEF Allowance
    <3> HIDE DEF of, deadline
    <3> QED
      BY <1>4, <3>1, <3>2 DEF Insufficient
  <2> QED
    BY <2>1, <2>2
<1> HIDE DEF s, details, approvals, missing, deadline
<1>10. Covered(s, of)
  BY <1>7, <1>8, <1>9 DEF Covered
<1>11. Covered(s, allowances[s.account][s.agent])
  BY <1>7, <1>10
<1>12. Promise(s, now, allowances, readdressed)
  BY <1>4, <1>7, <1>8, <1>11 DEF Promise
<1> QED
  BY <1>1, <1>2, <1>12, OnePromise

\* A transaction of the account that touches none of a call's inputs leaves it its
\* allowances; one that touches them is remembered.
LEMMA DisturbedPromise ==
    ASSUME IInv, Promises, NEW d \in Calls, NEW account \in Accounts, NEW tokens \in SUBSET Tokens,
           \A a \in Accounts \ {account} : allowances'[a] = allowances[a],
           \A r \in Routers, t \in Tokens \ tokens :
             allowances'[account][r][t] = allowances[account][r][t]
    PROVE  Promise(Disturb(account, tokens, calls[d]), now, allowances', readdressed)
<1> DEFINE s == calls[d]
           touched == s.pc = "prepared" /\ s.account = account /\ s.inputs \cap tokens # {}
           after == Disturb(account, tokens, s)
<1>1. s \in CallStates /\ Promise(s, now, allowances, readdressed) /\ now \in Int
  BY DEF IInv, TypeOK, Promises
<1>2. s.pc = "prepared" => s.account \in Accounts /\ s.agent \in Routers
  BY <1>1 DEF IInv, GoodCalls, GoodCall, CallStates, Cached
<1>3. CASE touched
  <2>1. after = [s EXCEPT !.disturbed = TRUE]
    BY <1>1, <1>3 DEF Disturb, CallStates
  <2>2. /\ after.pc = s.pc /\ after.details = s.details /\ after.inputs = s.inputs
        /\ after.deadline = s.deadline /\ after.expiration = s.expiration
        /\ after.approvals = s.approvals /\ after.disturbed
    BY <1>1, <2>1 DEF CallStates
  <2> HIDE DEF after
  <2>3. Promise(after, now, allowances', readdressed)
    BY <1>1, <1>3, <2>2 DEF Promise
  <2> QED
    BY <2>3 DEF after
<1>4. CASE ~ touched
  <2>1. after = s
    BY <1>1, <1>4 DEF Disturb, CallStates
  <2>2. ASSUME s.pc = "prepared", NEW t \in s.inputs
        PROVE  allowances'[s.account][s.agent][t] = allowances[s.account][s.agent][t]
    <3>1. CASE s.account # account
      BY <1>2, <2>2, <3>1
    <3>2. CASE s.account = account
      <4>1. t \in Tokens \ tokens
        BY <1>1, <1>4, <2>2, <3>2 DEF CallStates
      <4> QED
        BY <1>2, <2>2, <3>2, <4>1
    <3> QED
      BY <3>1, <3>2
  <2>3. now <= now
    BY <1>1
  <2> HIDE DEF s
  <2>4. Promise(s, now, allowances', readdressed)
    BY <1>1, <2>2, <2>3, PromiseKept
  <2> QED
    BY <2>1, <2>4 DEF s
<1> QED
  BY <1>3, <1>4

LEMMA SendApprovalPromise ==
    ASSUME IInv, Promises, NEW c \in Calls, NEW t \in Tokens, SendApproval(c, t) PROVE Promises'
<1> DEFINE call == calls[c]
           of == allowances[call.account][call.agent]
           s == [call EXCEPT !.approvals = call.approvals \ {t}]
           approved == [of[t] EXCEPT !.amount = MaxUint160, !.expiration = call.expiration]
<1>1. /\ call \in CallStates /\ call.pc = "prepared" /\ t \in call.approvals
      /\ call.account \in Accounts /\ call.agent \in Routers
      /\ UNCHANGED <<now, readdressed>>
  BY DEF IInv, TypeOK, GoodCalls, GoodCall, SendApproval, CallStates, Cached
<1>2. of \in [Tokens -> Allowance] /\ allowances \in [Accounts -> [Routers -> [Tokens -> Allowance]]]
  BY <1>1 DEF IInv, AllowancesTyped
<1>3. allowances' = [allowances EXCEPT ![call.account][call.agent][t] = approved]
  BY <1>1, <1>2 DEF SendApproval
<1>4. /\ \A a \in Accounts \ {call.account} : allowances'[a] = allowances[a]
      /\ \A r \in Routers, u \in Tokens \ {t} :
           allowances'[call.account][r][u] = allowances[call.account][r][u]
      /\ allowances'[call.account][call.agent] = [of EXCEPT ![t] = approved]
  <2> HIDE DEF approved
  <2> QED
    BY <1>1, <1>2, <1>3
<1>5. calls' = [d \in Calls |-> IF d = c THEN s ELSE Disturb(call.account, {t}, calls[d])]
  BY DEF SendApproval
<1>6. ASSUME NEW d \in Calls \ {c} PROVE Promise(calls'[d], now, allowances', readdressed)
  <2>1. Promise(Disturb(call.account, {t}, calls[d]), now, allowances', readdressed)
    BY <1>1, <1>4, DisturbedPromise
  <2> QED
    BY <1>5, <2>1
<1>7. /\ s.pc = "prepared" /\ s.approvals = call.approvals \ {t} /\ s.details = call.details
      /\ s.inputs = call.inputs /\ s.deadline = call.deadline /\ s.expiration = call.expiration
      /\ s.account = call.account /\ s.agent = call.agent /\ s.disturbed = call.disturbed
  BY <1>1 DEF CallStates
<1>8. /\ \A d \in call.details : d[1] \in call.inputs
      /\ call.deadline < call.expiration
      /\ call.disturbed \/ Covered(call, of)
  BY <1>1 DEF Promises, Promise
<1>9. ASSUME Covered(call, of) PROVE Covered(s, [of EXCEPT ![t] = approved])
  <2>1. /\ approved.nonce = of[t].nonce /\ approved.amount >= 1
        /\ approved.expiration > call.deadline
    <3>1. of[t] \in Allowance
      BY <1>2
    <3>2. call.deadline \in Int /\ call.expiration \in Int
      BY <1>1, DeadlineAssumption DEF CallStates
    <3> QED
      BY <1>8, <3>1, <3>2, AllowanceAssumption DEF Allowance
  <2>2. call.inputs \subseteq Tokens
    BY <1>1 DEF CallStates
  <2> DEFINE after == [of EXCEPT ![t] = approved]
  <2>3. after[t] = approved /\ \A u \in Tokens : u # t => after[u] = of[u]
    BY <1>2
  <2> HIDE DEF after, s, approved, of, call
  <2>4. \A d \in s.details : after[d[1]].nonce = d[2]
    BY <1>7, <1>8, <1>9, <2>1, <2>2, <2>3 DEF Covered
  <2>5. ASSUME NEW u \in s.inputs
        PROVE  \/ u \in s.approvals
               \/ \E d \in s.details : d[1] = u
               \/ after[u].amount >= 1 /\ after[u].expiration > s.deadline
    <3>1. CASE u = t
      BY <1>7, <2>1, <2>3, <3>1
    <3>2. CASE u # t
      BY <1>7, <1>9, <2>2, <2>3, <3>2 DEF Covered
    <3> QED
      BY <3>1, <3>2
  <2>6. Covered(s, after)
    BY <2>4, <2>5 DEF Covered
  <2> QED
    BY <2>6 DEF after
<1> HIDE DEF approved, s
<1>10. Promise(s, now, allowances', readdressed)
  <2>1. s.disturbed \/ Covered(s, allowances'[s.account][s.agent])
    BY <1>4, <1>7, <1>8, <1>9
  <2> QED
    BY <1>7, <1>8, <2>1 DEF Promise
<1>11. calls'[c] = s
  BY <1>5
<1> QED
  BY <1>1, <1>6, <1>10, <1>11 DEF Promises

\* A transaction in time, with its promise kept and its Router in place, does not revert.
LEMMA ExecutePromise == ASSUME IInv, Promises, NEW c \in Calls, Execute(c) PROVE Promises'
<1> DEFINE call == calls[c]
           agent == RouterOf(call.kit)
           of == allowances[call.account][call.agent]
           permitted == [allowances[call.account] EXCEPT ![call.agent] = Permitted(call)]
           valid == /\ call.details # {} => PermitValid(call)
                    /\ Transferable(call.inputs, permitted[agent])
           result == [NewCall EXCEPT !.pc = IF valid THEN "executed" ELSE "reverted", !.op = call.op,
                                     !.deadline = call.deadline, !.disturbed = call.disturbed,
                                     !.executor = agent, !.payee = Payee(call.account), !.when = now]
<1>1. /\ call \in CallStates /\ call.pc = "prepared" /\ call.approvals = {}
      /\ call.kit \in Kits /\ call.account \in Accounts /\ call.agent \in Routers
      /\ UNCHANGED <<now, readdressed>>
  BY DEF IInv, TypeOK, GoodCalls, GoodCall, Execute, CallStates, Cached
<1>2. agent \in Routers /\ (~readdressed => agent = call.agent)
  BY <1>1, UsingARouter, RouterAssumption DEF IInv, OneRouter
<1>3. /\ \A d \in call.details : d[1] \in call.inputs
      /\ call.details # {} => call.deadline < call.expiration
      /\ call.disturbed \/ Covered(call, of)
  BY <1>1 DEF Promises, Promise
<1>4. call.inputs \in SUBSET Tokens /\ call.deadline \in Int /\ call.expiration \in Int /\ now \in Int
  BY <1>1, DeadlineAssumption DEF CallStates, IInv, TypeOK
<1>5. allowances \in [Accounts -> [Routers -> [Tokens -> Allowance]]]
  BY DEF IInv, AllowancesTyped
<1>6. /\ allowances' = IF ~valid THEN allowances
                       ELSE [allowances EXCEPT ![call.account] =
                               [permitted EXCEPT ![agent] = Transferred(call.inputs, permitted[agent])]]
      /\ calls' = [d \in Calls |-> IF d = c THEN result
                                   ELSE IF valid THEN Disturb(call.account, call.inputs, calls[d])
                                   ELSE calls[d]]
  BY DEF Execute
<1>7. ASSUME now <= call.deadline, ~ call.disturbed, ~ readdressed
      PROVE  valid
  <2>1. Covered(call, of) /\ agent = call.agent
    BY <1>2, <1>3, <1>7
  <2>2. permitted[agent] = Permitted(call)
    BY <1>1, <1>5, <2>1
  <2>3. call.details # {} => PermitValid(call)
    BY <1>7, <2>1 DEF PermitValid, Covered
  <2>4. ASSUME NEW t \in call.inputs
        PROVE  Permitted(call)[t].amount >= 1 /\ now <= Permitted(call)[t].expiration
    <3>1. t \in Tokens /\ of[t] \in Allowance
      BY <1>1, <1>4, <1>5
    <3>2. CASE \E d \in call.details : d[1] = t
      <4>1. t \in {d[1] : d \in call.details}
        BY <3>2
      <4>2. Permitted(call)[t].amount = MaxUint160 /\ Permitted(call)[t].expiration = call.expiration
        BY <3>1, <4>1 DEF Permitted
      <4> QED
        BY <1>3, <1>4, <1>7, <3>2, <4>2, AllowanceAssumption
    <3>3. CASE ~ \E d \in call.details : d[1] = t
      <4>1. t \notin {d[1] : d \in call.details}
        BY <3>3
      <4>2. Permitted(call)[t] = of[t]
        BY <3>1, <4>1 DEF Permitted
      <4>3. of[t].amount >= 1 /\ of[t].expiration > call.deadline
        BY <1>1, <2>1, <3>3 DEF Covered
      <4>4. of[t].expiration \in Int
        BY <3>1 DEF Allowance
      <4> HIDE DEF of
      <4> QED
        BY <1>4, <1>7, <4>2, <4>3, <4>4
    <3> QED
      BY <3>2, <3>3
  <2> HIDE DEF permitted
  <2>5. Transferable(call.inputs, permitted[agent])
    BY <2>2, <2>4 DEF Transferable
  <2> QED
    BY <2>3, <2>5
<1>8. ASSUME valid, NEW r \in Routers, NEW t \in Tokens \ call.inputs
      PROVE  allowances'[call.account][r][t] = allowances[call.account][r][t]
  <2>1. \A u \in Tokens \ call.inputs : Permitted(call)[u] = of[u]
    <3>1. \A u \in Tokens \ call.inputs : u \notin {d[1] : d \in call.details}
      BY <1>3
    <3> QED
      BY <3>1 DEF Permitted
  <2>2. permitted[r][t] = allowances[call.account][r][t]
    BY <1>1, <1>5, <2>1
  <2>3. Transferred(call.inputs, permitted[r])[t] = permitted[r][t]
    BY DEF Transferred
  <2>4. permitted = [q \in Routers |-> permitted[q]]
    BY <1>1, <1>5
  <2> HIDE DEF valid, permitted
  <2>5. allowances'[call.account] = [permitted EXCEPT ![agent] = Transferred(call.inputs, permitted[agent])]
    BY <1>1, <1>5, <1>6, <1>8
  <2> HIDE DEF agent, call
  <2> QED
    BY <2>2, <2>3, <2>4, <2>5
<1>9. ASSUME valid, NEW a \in Accounts \ {call.account} PROVE allowances'[a] = allowances[a]
  <2> HIDE DEF valid, permitted, agent
  <2> QED
    BY <1>1, <1>5, <1>6, <1>9
<1>10. ASSUME NEW d \in Calls \ {c} PROVE Promise(calls'[d], now, allowances', readdressed)
  <2>1. CASE valid
    <3>1. calls'[d] = Disturb(call.account, call.inputs, calls[d])
      BY <1>6, <2>1
    <3>2. Promise(Disturb(call.account, call.inputs, calls[d]), now, allowances', readdressed)
      <4> HIDE DEF valid
      <4>1. /\ \A a \in Accounts \ {call.account} : allowances'[a] = allowances[a]
            /\ \A r \in Routers, t \in Tokens \ call.inputs :
                 allowances'[call.account][r][t] = allowances[call.account][r][t]
        BY <1>8, <1>9, <2>1
      <4> QED
        BY <1>1, <1>4, <4>1, DisturbedPromise
    <3> QED
      BY <3>1, <3>2
  <2>2. CASE ~ valid
    <3> HIDE DEF valid
    <3>1. calls'[d] = calls[d] /\ allowances' = allowances
      BY <1>6, <2>2
    <3> QED
      BY <3>1 DEF Promises
  <2> QED
    BY <2>1, <2>2
<1>11. Promise(calls'[c], now, allowances', readdressed)
  <2>1. calls'[c] = result
    BY <1>6
  <2>2. result.pc = (IF valid THEN "executed" ELSE "reverted") /\ result.when = now
        /\ result.deadline = call.deadline /\ result.disturbed = call.disturbed
    BY DEF NewCall
  <2> HIDE DEF valid, result, call
  <2>3. result.pc = "reverted" => result.when > result.deadline \/ result.disturbed \/ readdressed
    BY <1>4, <1>7, <2>2
  <2>4. Promise(result, now, allowances', readdressed)
    BY <2>2, <2>3 DEF Promise
  <2> QED
    BY <2>1, <2>4
<1> QED
  BY <1>1, <1>10, <1>11 DEF Promises

LEMMA NextPromises == IInv /\ Promises /\ [Next]_vars => Promises'
<1> SUFFICES ASSUME IInv, Promises, [Next]_vars PROVE Promises'
  OBVIOUS
<1>1. CASE Tick
  BY <1>1, TickPromise
<1>2. ASSUME NEW r \in Routers, SetContractAddress(r) PROVE Promises'
  BY <1>2, SetContractAddressPromise
<1>3. ASSUME NEW c \in Calls, NEW k \in Kits, NEW op \in Addresses, GetAddress(c, op, k) PROVE Promises'
  BY <1>3, GetAddressPromise
<1>4. ASSUME NEW c \in Calls, NEW k \in Kits, NEW op \in Preparing, NEW a \in Accounts,
             NEW inputs \in InputsAsked, Prepare(c, op, k, a, inputs)
      PROVE  Promises'
  BY <1>4, PreparePromise
<1>5. ASSUME NEW c \in Calls, Receive(c) PROVE Promises'
  BY <1>5, ReceivePromise, ReceiveAllowancesPromise DEF Receive
<1>6. ASSUME NEW c \in Calls, NEW t \in Tokens, SendApproval(c, t) PROVE Promises'
  BY <1>6, SendApprovalPromise
<1>7. ASSUME NEW c \in Calls, Execute(c) PROVE Promises'
  BY <1>7, ExecutePromise
<1>8. CASE UNCHANGED vars
  BY <1>8 DEF vars, Promises
<1> QED
  BY <1>1, <1>2, <1>3, <1>4, <1>5, <1>6, <1>7, <1>8 DEF Next

\* A permit signed or approvals sent within the day still hold when the transaction runs,
\* whatever the other calls, kits and accounts do meanwhile: a revert means it came too
\* late, another transaction of the account used the inputs, or the Router was moved.
THEOREM PreparedForADay == Spec => []GoodForADay
<1>1. Init => Promises
  BY DEF Init, Promises, Promise, NewCall
<1>2. Promises => GoodForADay
  BY DEF Promises, Promise, GoodForADay
<1> QED
  BY <1>1, <1>2, IInvHolds, NextPromises, PTL DEF Spec
=============================================================================
