------------------------------ MODULE RouterKit ------------------------------
(***************************************************************************)
(* The RouterKits of one chain, and the Permit2 allowances they prepare.   *)
(* The addresses a kit asks the Router contract for are cached by chain    *)
(* and shared by every kit of the process; the contract itself is          *)
(* remembered by each kit from the first use.  A call reads allowances,    *)
(* and returns a permit for the account to sign or approvals for it to     *)
(* send; the account sends its transaction at any later time, or never.    *)
(*                                                                         *)
(* An address that belongs to a Router (its agent implementation, its      *)
(* collector, an account's agent) is modelled by the Router it was read    *)
(* from.  Permit2 is one contract, whichever Router names it.  Time passes *)
(* in days.                                                                *)
(***************************************************************************)
EXTENDS Integers, FiniteSets

CONSTANTS
    Kits, Calls, Accounts, Tokens,
    Routers,              \* the addresses a Router may be configured at
    DefaultRouter,        \* the one contractAddressMap has
    InputsAsked,          \* the sets of tokens calls are made for
    none,
    PERMIT_SIG_DEADLINE,
    PERMIT_EXPIRATION,
    MaxUint160,           \* an allowance that is not used up
    Granted,              \* the allowances there may be when the program starts
    MaxTime               \* bound on the clock

ASSUME RouterAssumption == DefaultRouter \in Routers /\ none \notin Routers
ASSUME InputsAssumption == InputsAsked \subseteq SUBSET Tokens
ASSUME DeadlineAssumption ==
    /\ PERMIT_SIG_DEADLINE \in Nat /\ PERMIT_EXPIRATION \in Nat
    /\ PERMIT_SIG_DEADLINE < PERMIT_EXPIRATION /\ MaxTime \in Nat
ASSUME AllowanceAssumption ==
    /\ MaxUint160 \in Nat \ {0, 1}
    /\ Granted \subseteq [Accounts -> [Routers -> [Tokens -> [amount : 0..MaxUint160, expiration : Nat, nonce : Nat]]]]

VARIABLES
    now,
    contractAddress,  \* contractAddressMap[chainId].Router
    router,           \* RouterKit._router of each kit
    addressMap,       \* agentImplementationAddressMap, defaultCollectorMap, defaultReferralMap
    permit2Known,     \* permit2AddressMap has the chain
    agentMap,         \* agentMap[chainId]
    allowances,       \* allowances[account][r][token]: what Permit2 lets r's agent move
    calls,
    readdressed       \* history: setContractAddress was called after a kit was used

caches == <<addressMap, permit2Known, agentMap>>
vars == <<now, contractAddress, router, caches, allowances, calls, readdressed>>

Addresses == {"agentImplementation", "defaultCollector", "defaultReferral"}
Preparing == {"permit", "approvals"}
Cached == Routers \cup {none}

\* asked: the Router the outstanding read is about; agent: whose agent may spend;
\* deadline: until when the answer is good; details: the tokens to permit, at their
\* nonces; approvals: the tokens still to approve; expiration: what both ask for.
\* disturbed (history): another transaction of the account touched an input since the
\* allowances were read; paid: the Router whose agent got the inputs, and when.
CallStates ==
    [pc : {"idle", "agent", "address", "permit2", "allowance", "prepared", "done",
           "executed", "reverted", "rejected"},
     op : Addresses \cup Preparing \cup {"none"}, kit : Kits \cup {none},
     account : Accounts \cup {none}, inputs : SUBSET Tokens, asked : Cached, agent : Cached,
     deadline : 0..(MaxTime + PERMIT_SIG_DEADLINE),
     details : SUBSET (Tokens \X Nat), approvals : SUBSET Tokens,
     expiration : 0..(MaxTime + PERMIT_EXPIRATION), disturbed : BOOLEAN,
     executor : Cached, payee : Cached, when : 0..MaxTime]

NewCall == [pc |-> "idle", op |-> "none", kit |-> none, account |-> none, inputs |-> {},
            asked |-> none, agent |-> none, deadline |-> 0, details |-> {}, approvals |-> {},
            expiration |-> 0, disturbed |-> FALSE, executor |-> none, payee |-> none, when |-> 0]

Init ==
    /\ now = 0
    /\ contractAddress = DefaultRouter
    /\ router = [k \in Kits |-> none]
    /\ addressMap = [x \in Addresses |-> none]
    /\ permit2Known = FALSE
    /\ agentMap = [a \in Accounts |-> none]
    /\ allowances \in Granted
    /\ calls = [c \in Calls |-> NewCall]
    /\ readdressed = FALSE

-----------------------------------------------------------------------------
\* Mutant: the kit connects its contract when it is made, not when it is used.
RouterOf_Default(k) == DefaultRouter

\* The getter router: connected where the configuration says at the first use.
RouterOf(k) == IF router[k] # none THEN router[k] ELSE contractAddress

UseRouter(k) == router' = [router EXCEPT ![k] = RouterOf(k)]

SetContractAddress(r) ==
    /\ r # contractAddress
    /\ contractAddress' = r
    /\ readdressed' = (readdressed \/ \E k \in Kits : router[k] # none)
    /\ UNCHANGED <<now, router, caches, allowances, calls>>

\* One day passes.
Tick ==
    /\ now < MaxTime
    /\ now' = now + 1
    /\ UNCHANGED <<contractAddress, router, caches, allowances, calls, readdressed>>

Put(c, state) == calls' = [calls EXCEPT ![c] = state]

\* getAgentImplementationAddress, getDefaultCollector, getDefaultReferral.
GetAddress(c, op, k) ==
    /\ calls[c].pc = "idle"
    /\ op \in Addresses
    /\ LET call == [NewCall EXCEPT !.op = op, !.kit = k]
       IN  IF addressMap[op] # none
           THEN /\ Put(c, [call EXCEPT !.pc = "done", !.agent = addressMap[op]])
                /\ UNCHANGED router
           ELSE /\ Put(c, [call EXCEPT !.pc = "address", !.asked = RouterOf(k)])
                /\ UseRouter(k)
    /\ UNCHANGED <<now, contractAddress, caches, allowances, readdressed>>

\* Mutant: the signature is asked for as long as the permit.
AskAllowances_LongSignature(call) ==
    [call EXCEPT !.pc = IF call.inputs = {} THEN "prepared" ELSE "allowance",
                 !.asked = none, !.deadline = now + PERMIT_EXPIRATION]

\* The allowances of the inputs are asked for; a permit's sigDeadline is computed here.
AskAllowances(call) ==
    [call EXCEPT !.pc = IF call.inputs = {} THEN "prepared" ELSE "allowance",
                 !.asked = none, !.deadline = now + PERMIT_SIG_DEADLINE]

\* getPermit2Address, which may have to ask for the agent implementation first.
GetPermit2Address(c, call) ==
    \/ /\ permit2Known
       /\ Put(c, AskAllowances(call))
       /\ UNCHANGED router
    \/ /\ ~permit2Known /\ addressMap["agentImplementation"] # none
       /\ Put(c, [call EXCEPT !.pc = "permit2", !.asked = addressMap["agentImplementation"]])
       /\ UNCHANGED router
    \/ /\ ~permit2Known /\ addressMap["agentImplementation"] = none
       /\ Put(c, [call EXCEPT !.pc = "address", !.asked = RouterOf(call.kit)])
       /\ UseRouter(call.kit)

\* getPermit2PermitData and getPermit2Approvals, up to the first answer they wait for.
Prepare(c, op, k, account, inputs) ==
    /\ calls[c].pc = "idle"
    /\ op \in Preparing
    /\ LET call == [NewCall EXCEPT !.op = op, !.kit = k, !.account = account, !.inputs = inputs]
       IN  \/ /\ op = "approvals" /\ inputs = {}
              /\ Put(c, [call EXCEPT !.pc = "done"])
              /\ UNCHANGED router
           \/ /\ op = "permit" \/ inputs # {}
              /\ agentMap[account] # none
              /\ GetPermit2Address(c, [call EXCEPT !.agent = agentMap[account]])
           \/ /\ op = "permit" \/ inputs # {}
              /\ agentMap[account] = none
              /\ Put(c, [call EXCEPT !.pc = "agent", !.asked = RouterOf(k)])
              /\ UseRouter(k)
    /\ UNCHANGED <<now, contractAddress, caches, allowances, readdressed>>

\* Mutant: the map of the chain, read before the await, is put back with the agent.
ReceiveAgent_Overwrites(c) ==
    /\ calls[c].pc = "agent"
    /\ agentMap' = [a \in Accounts |-> IF a = calls[c].account THEN calls[c].asked ELSE none]
    /\ GetPermit2Address(c, [calls[c] EXCEPT !.agent = calls[c].asked])
    /\ UNCHANGED <<now, contractAddress, addressMap, permit2Known, allowances, readdressed>>

\* calcAgent has its answer.
ReceiveAgent(c) ==
    /\ calls[c].pc = "agent"
    /\ agentMap' = [agentMap EXCEPT ![calls[c].account] = calls[c].asked]
    /\ GetPermit2Address(c, [calls[c] EXCEPT !.agent = calls[c].asked])
    /\ UNCHANGED <<now, contractAddress, addressMap, permit2Known, allowances, readdressed>>

\* The Router has named an address: the one asked for, or the agent implementation that
\* getPermit2Address goes on to ask.
ReceiveAddress(c) ==
    /\ calls[c].pc = "address"
    /\ LET call == calls[c]
           name == IF call.op \in Addresses THEN call.op ELSE "agentImplementation"
       IN  /\ addressMap' = [addressMap EXCEPT ![name] = call.asked]
           /\ Put(c, IF call.op \in Addresses THEN [call EXCEPT !.pc = "done", !.agent = call.asked, !.asked = none]
                                              ELSE [call EXCEPT !.pc = "permit2"])
    /\ UNCHANGED <<now, contractAddress, router, permit2Known, agentMap, allowances, readdressed>>

ReceivePermit2(c) ==
    /\ calls[c].pc = "permit2"
    /\ permit2Known' = TRUE
    /\ Put(c, AskAllowances(calls[c]))
    /\ UNCHANGED <<now, contractAddress, router, addressMap, agentMap, allowances, readdressed>>

-----------------------------------------------------------------------------
(* Every input is of one unit, and every allowance asked for of MaxUint160.  *)

\* Mutant: the allowance only has to be good when it is read.
Insufficient_Now(allowance, deadline) == allowance.amount < 1 \/ allowance.expiration < now

Insufficient(allowance, deadline) == allowance.amount < 1 \/ allowance.expiration <= deadline

\* The multicall is answered, from the chain as it is somewhere in between.  Approvals
\* compute their deadline now, a permit has it from before.
ReceiveAllowances(c) ==
    /\ calls[c].pc = "allowance"
    /\ LET call == calls[c]
           of == allowances[call.account][call.agent]
           deadline == IF call.op = "permit" THEN call.deadline ELSE now + PERMIT_SIG_DEADLINE
           missing == {t \in call.inputs : Insufficient(of[t], deadline)}
       IN  Put(c, [call EXCEPT !.pc = "prepared", !.deadline = deadline,
                               !.expiration = now + PERMIT_EXPIRATION,
                               !.details = IF call.op = "permit" THEN {<<t, of[t].nonce>> : t \in missing} ELSE {},
                               !.approvals = IF call.op = "approvals" THEN missing ELSE {}])
    /\ UNCHANGED <<now, contractAddress, router, caches, allowances, readdressed>>

\* The node fails; nothing was cached.
Reject(c) ==
    /\ calls[c].pc \in {"agent", "address", "permit2", "allowance"}
    /\ Put(c, [NewCall EXCEPT !.pc = "rejected", !.op = calls[c].op])
    /\ UNCHANGED <<now, contractAddress, router, caches, allowances, readdressed>>

-----------------------------------------------------------------------------
(* The account's transactions, at any later time.                           *)

\* Calls that are prepared for the same account and an input among tokens.
Disturb(account, tokens, state) ==
    [state EXCEPT !.disturbed = @ \/ /\ state.pc = "prepared" /\ state.account = account
                                     /\ state.inputs \cap tokens # {}]

\* One of the approvals of call c.
SendApproval(c, t) ==
    /\ calls[c].pc = "prepared"
    /\ t \in calls[c].approvals
    /\ LET call == calls[c]
       IN  /\ allowances' = [allowances EXCEPT ![call.account][call.agent][t] =
                               [@ EXCEPT !.amount = MaxUint160, !.expiration = call.expiration]]
           /\ calls' = [d \in Calls |-> IF d = c THEN [call EXCEPT !.approvals = @ \ {t}]
                                                 ELSE Disturb(call.account, {t}, calls[d])]
    /\ UNCHANGED <<now, contractAddress, router, caches, readdressed>>

\* Permit2.permit with the data of call, signed.
Permitted(call) ==
    [t \in Tokens |-> LET of == allowances[call.account][call.agent][t]
                      IN  IF t \in {d[1] : d \in call.details}
                          THEN [amount |-> MaxUint160, expiration |-> call.expiration, nonce |-> of.nonce + 1]
                          ELSE of]

PermitValid(call) ==
    /\ now <= call.deadline
    /\ \A d \in call.details : allowances[call.account][call.agent][d[1]].nonce = d[2]

\* Permit2.transferFrom, called by an agent that has these allowances.
Transferable(inputs, granted) ==
    \A t \in inputs : granted[t].amount >= 1 /\ now <= granted[t].expiration

Transferred(inputs, granted) ==
    [t \in Tokens |-> IF t \in inputs /\ granted[t].amount # MaxUint160
                      THEN [granted[t] EXCEPT !.amount = @ - 1] ELSE granted[t]]

\* Mutant: the agent of the Router the package was built with.
Payee_Default(account) == DefaultRouter

\* The agent encodePermit2TransferFrom sends the inputs to: calcAgent of the cache.
Payee(account) == agentMap[account]

\* buildExecuteTransactionRequest, with encodePermit2Permit when there is a permit and
\* encodePermit2TransferFrom: the Router of the kit has the account's agent run them.
Execute(c) ==
    /\ calls[c].pc = "prepared"
    /\ calls[c].approvals = {}
    /\ LET call == calls[c]
           agent == RouterOf(call.kit)
           permitted == [allowances[call.account] EXCEPT ![call.agent] = Permitted(call)]
           valid == /\ call.details # {} => PermitValid(call)
                    /\ Transferable(call.inputs, permitted[agent])
           result == [NewCall EXCEPT !.pc = IF valid THEN "executed" ELSE "reverted", !.op = call.op,
                                     !.deadline = call.deadline, !.disturbed = call.disturbed,
                                     !.executor = agent, !.payee = Payee(call.account), !.when = now]
       IN  /\ UseRouter(call.kit)
           /\ allowances' = IF ~valid THEN allowances
                            ELSE [allowances EXCEPT ![call.account] =
                                    [permitted EXCEPT ![agent] = Transferred(call.inputs, @)]]
           /\ calls' = [d \in Calls |-> IF d = c THEN result
                                        ELSE IF valid THEN Disturb(call.account, call.inputs, calls[d])
                                        ELSE calls[d]]
    /\ UNCHANGED <<now, contractAddress, caches, readdressed>>

Receive(c) ==
    \/ ReceiveAgent(c)
    \/ ReceiveAddress(c)
    \/ ReceivePermit2(c)
    \/ ReceiveAllowances(c)
    \/ Reject(c)

Next ==
    \/ Tick
    \/ \E r \in Routers : SetContractAddress(r)
    \/ \E c \in Calls :
         \/ \E k \in Kits :
              \/ \E op \in Addresses : GetAddress(c, op, k)
              \/ \E op \in Preparing, a \in Accounts, inputs \in InputsAsked :
                   Prepare(c, op, k, a, inputs)
         \/ Receive(c)
         \/ \E t \in Tokens : SendApproval(c, t)
         \/ Execute(c)

Spec == Init /\ [][Next]_vars

-----------------------------------------------------------------------------
(* Properties.                                                              *)

TypeOK ==
    /\ now \in 0..MaxTime /\ contractAddress \in Routers
    /\ router \in [Kits -> Cached] /\ addressMap \in [Addresses -> Cached]
    /\ permit2Known \in BOOLEAN /\ agentMap \in [Accounts -> Cached]
    /\ calls \in [Calls -> CallStates] /\ readdressed \in BOOLEAN

\* While the Router is configured before it is used, every kit, every cache and every
\* answer speaks of the configured one, whichever kit of the process filled it.
OneRouter ==
    ~readdressed =>
        /\ \A k \in Kits : router[k] \in {none, contractAddress}
        /\ \A x \in Addresses : addressMap[x] \in {none, contractAddress}
        /\ \A a \in Accounts : agentMap[a] \in {none, contractAddress}
        /\ \A c \in Calls : calls[c].agent \in {none, contractAddress}

\* While the Router is configured before it is used, the inputs of a transaction go to the
\* agent that runs it.  Once it is configured after a first use they may not: the payee is
\* the cached agent of the old Router and a new kit executes with the new one.
FundsArrive == ~readdressed => \A c \in Calls : calls[c].payee = calls[c].executor

\* What was prepared suffices for a day, however long the node took to answer: the
\* transaction reverts only after the deadline, when another transaction of the account
\* used the same allowances since, or when the Router was moved under a kit.
GoodForADay ==
    \A c \in Calls : calls[c].pc = "reverted" =>
        calls[c].when > calls[c].deadline \/ calls[c].disturbed \/ readdressed

\* An agent, once cached, is neither lost, also when calls for other accounts answer late,
\* nor replaced by another Router's while the Router stays where it is.
AgentsKept ==
    [][\A a \in Accounts : agentMap[a] # none =>
         agentMap'[a] # none /\ (agentMap'[a] = agentMap[a] \/ readdressed)]_agentMap
=============================================================================
