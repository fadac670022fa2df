---------------------------- MODULE SetupProofs -----------------------------
(***************************************************************************)
(* The creation of Adapters and the tokens they and their callers look up, *)
(* for any protocols, reserves, adapters and calls, whatever the CDN and   *)
(* the API answer and however it all interleaves.  Three invariants carry  *)
(* the proofs, each about what the others leave alone: TInv of the cached  *)
(* list, CInv of the protocols and the adapters, LInv of the lists and of  *)
(* the tokens a call hands out.                                            *)
(***************************************************************************)
EXTENDS Setup, FoldLemmas

\* The fields of a call that matter here.
IsCall(s) == {"pc", "settled", "from"} \subseteq DOMAIN s

CallsTyped == /\ tokenCalls = [c \in TokenCalls |-> tokenCalls[c]]
              /\ \A c \in TokenCalls : IsCall(tokenCalls[c])

\* The list is cached and nobody fetches it any more.
Quiet == unifiedTokenMapCache # Undefined /\ \A c \in TokenCalls : ~Fetching(c)

\* A call found the list settled only if it is, and nothing unsettles it.
SettledIsQuiet == (\E c \in TokenCalls : tokenCalls[c].settled) => Quiet

TInv == CallsTyped /\ SettledIsQuiet /\ AnswersAgree

-----------------------------------------------------------------------------
\* Nothing is cached and nobody has asked.
LEMMA InitTInv == TokensInit => TInv
<1> SUFFICES ASSUME TokensInit PROVE TInv
  OBVIOUS
<1>1. tokenCalls = [c \in TokenCalls |-> NewTokenCall] /\ IsCall(NewTokenCall)
  BY DEF TokensInit, IsCall, NewTokenCall
<1>2. \A c \in TokenCalls : tokenCalls[c] = NewTokenCall
  BY <1>1
<1>3. ~NewTokenCall.settled
  BY DEF NewTokenCall
<1> HIDE DEF NewTokenCall
<1>4. CallsTyped
  BY <1>1, <1>2 DEF CallsTyped
<1> QED
  BY <1>2, <1>3, <1>4 DEF TInv, SettledIsQuiet, AnswersAgree

\* A call begins with, or waits for, the list; when the list is settled it gets that one.
LEMMA UnifyStep ==
    ASSUME TInv, NEW c \in TokenCalls, NEW shape, UnifyTokens(c, shape)
    PROVE  TInv'
<1> DEFINE quiet == unifiedTokenMapCache # Undefined /\ \A d \in TokenCalls : ~Fetching(d)
           call == [NewTokenCall EXCEPT !.pc = "fetch", !.shape = shape, !.settled = quiet]
           s == IF unifiedTokenMapCache # Undefined THEN Answered(call, unifiedTokenMapCache) ELSE call
<1>1. tokenCalls' = [tokenCalls EXCEPT ![c] = s] /\ unifiedTokenMapCache' = unifiedTokenMapCache
  BY DEF UnifyTokens
<1>2. IsCall(call) /\ (call.settled => Quiet) /\ call.pc = "fetch"
  <2>1. quiet => Quiet
    BY DEF Quiet
  <2> HIDE DEF quiet
  <2>2. call.settled = quiet /\ call.pc = "fetch" /\ IsCall(call)
    BY DEF NewTokenCall, IsCall
  <2> QED
    BY <2>1, <2>2
<1>3. /\ IsCall(s) /\ (s.settled => Quiet)
      /\ s.pc = IF unifiedTokenMapCache # Undefined THEN "unified" ELSE "fetch"
      /\ s.pc = "unified" => s.from = unifiedTokenMapCache
  <2> HIDE DEF call
  <2> QED
    BY <1>2 DEF Answered, IsCall
<1> HIDE DEF s, call
<1>4. tokenCalls'[c] = s /\ \A d \in TokenCalls \ {c} : tokenCalls'[d] = tokenCalls[d]
  BY <1>1 DEF TInv, CallsTyped
<1>5. CallsTyped'
  BY <1>1, <1>3, <1>4 DEF TInv, CallsTyped, IsCall
<1>6. SettledIsQuiet'
  <2>1. (\E d \in TokenCalls : tokenCalls'[d].settled) => Quiet
    BY <1>3, <1>4 DEF TInv, SettledIsQuiet
  <2>2. Quiet => Quiet'
    BY <1>1, <1>3, <1>4 DEF Quiet, Fetching
  <2> QED
    BY <2>1, <2>2 DEF SettledIsQuiet
<1>7. AnswersAgree'
  BY <1>1, <1>3, <1>4 DEF TInv, AnswersAgree
<1> QED
  BY <1>5, <1>6, <1>7 DEF TInv

\* While a call fetches the list no call has found it settled; what it gets is cached.
LEMMA ReceiveStep ==
    ASSUME TInv, NEW c \in TokenCalls, NEW external, ReceiveTokens(c, external)
    PROVE  TInv'
<1> DEFINE s == Answered([tokenCalls[c] EXCEPT !.fetched = {external}], Merge(external))
<1>1. tokenCalls' = [tokenCalls EXCEPT ![c] = s] /\ Fetching(c)
  BY DEF ReceiveTokens
<1>2. \A d \in TokenCalls : ~tokenCalls[d].settled
  BY <1>1 DEF TInv, SettledIsQuiet, Quiet
<1>3. IsCall(s) /\ ~s.settled
  BY <1>2 DEF Answered, IsCall, TInv, CallsTyped
<1> HIDE DEF s
<1>4. tokenCalls'[c] = s /\ \A d \in TokenCalls \ {c} : tokenCalls'[d] = tokenCalls[d]
  BY <1>1 DEF TInv, CallsTyped
<1>5. \A d \in TokenCalls : ~tokenCalls'[d].settled
  BY <1>2, <1>3, <1>4
<1>6. CallsTyped'
  BY <1>1, <1>3, <1>4 DEF TInv, CallsTyped, IsCall
<1> QED
  BY <1>5, <1>6 DEF TInv, SettledIsQuiet, AnswersAgree

\* getTokens shares nothing with them.
LEMMA OtherStep ==
    ASSUME TInv, NEW c \in TokenCalls, NEW wanted, GetTokens(c, wanted) \/ GetTokensFails(c)
    PROVE  TInv'
<1>1. PICK s : /\ tokenCalls' = [tokenCalls EXCEPT ![c] = s] /\ IsCall(s) /\ ~s.settled
               /\ s.pc \in {"threw", "read", "reverted"}
  <2>1. CASE GetTokens(c, wanted)
    <3>1. PICK read : tokenCalls' = [tokenCalls EXCEPT ![c] =
             [NewTokenCall EXCEPT !.pc = IF read.threw THEN "threw" ELSE "read",
                                  !.shape = wanted, !.tokens = IF read.threw THEN <<>> ELSE read.tokens]]
      BY <2>1 DEF GetTokens
    <3> DEFINE s == [NewTokenCall EXCEPT !.pc = IF read.threw THEN "threw" ELSE "read",
                          !.shape = wanted, !.tokens = IF read.threw THEN <<>> ELSE read.tokens]
    <3>2. IsCall(s) /\ ~s.settled /\ s.pc \in {"threw", "read", "reverted"}
      BY DEF NewTokenCall, IsCall
    <3>3. tokenCalls' = [tokenCalls EXCEPT ![c] = s]
      BY <3>1
    <3> HIDE DEF s
    <3> QED
      BY <3>2, <3>3
  <2>2. CASE GetTokensFails(c)
    <3> DEFINE s == [NewTokenCall EXCEPT !.pc = "reverted"]
    <3>1. tokenCalls' = [tokenCalls EXCEPT ![c] = s]
      BY <2>2 DEF GetTokensFails
    <3>2. IsCall(s) /\ ~s.settled /\ s.pc \in {"threw", "read", "reverted"}
      BY DEF NewTokenCall, IsCall
    <3> HIDE DEF s
    <3> QED
      BY <3>1, <3>2
  <2> QED
    BY <2>1, <2>2
<1>2. tokenCalls'[c] = s /\ \A d \in TokenCalls \ {c} : tokenCalls'[d] = tokenCalls[d]
  BY <1>1 DEF TInv, CallsTyped
<1>3. unifiedTokenMapCache' = unifiedTokenMapCache
  BY DEF GetTokens, GetTokensFails
<1>4. CallsTyped'
  BY <1>1, <1>2 DEF TInv, CallsTyped, IsCall
<1>5. SettledIsQuiet'
  BY <1>1, <1>2, <1>3 DEF TInv, SettledIsQuiet, Quiet, Fetching
<1>6. AnswersAgree'
  BY <1>1, <1>2, <1>3 DEF TInv, AnswersAgree
<1> QED
  BY <1>4, <1>5, <1>6 DEF TInv

LEMMA NextTInv == TInv /\ [TokensNext]_tokensVars => TInv'
<1> SUFFICES ASSUME TInv, [TokensNext]_tokensVars PROVE TInv'
  OBVIOUS
<1>1. CASE UNCHANGED tokensVars
  BY <1>1 DEF tokensVars, TInv, CallsTyped, SettledIsQuiet, Quiet, Fetching, AnswersAgree
<1>2. CASE TokensNext
  BY <1>2, UnifyStep, ReceiveStep, OtherStep DEF TokensNext
<1> QED
  BY <1>1, <1>2

\* Once the list is cached and nobody fetches it, every call is answered from it for good,
\* whatever adapters are created meanwhile.
THEOREM AnswersKeepAgreeing == FairSpec => []AnswersAgree
<1>1. Init => TInv
  BY InitTInv DEF Init
<1>2. TInv /\ [Next]_vars => TInv'
  BY NextTInv DEF Next, vars
<1>3. TInv => AnswersAgree
  BY DEF TInv
<1> QED
  BY <1>1, <1>2, <1>3, PTL DEF FairSpec

-----------------------------------------------------------------------------
(* What initializeReservesConfig makes of a list of reserves.              *)

Reserve == [asset : Assets, aToken : ReceiptTokens]

IsReserveList(R) ==
    /\ R \in Seq(Reserve)
    /\ \A i, j \in DOMAIN R : R[i].aToken = R[j].aToken => i = j

WrappedReserves == {r \in Reserve : r.asset \in Wrapped}

\* A wrapped reserve in its native form.
Unwrap == [r \in WrappedReserves |-> [asset |-> Unwrapped[r.asset], aToken |-> r.aToken]]

LEMMA UnwrapTyped == Unwrap \in [WrappedReserves -> Reserve]
<1>1. ASSUME NEW r \in WrappedReserves
      PROVE  [asset |-> Unwrapped[r.asset], aToken |-> r.aToken] \in Reserve
  BY TokensAssumption DEF WrappedReserves, Reserve, Wrapped
<1> QED
  BY <1>1 DEF Unwrap

\* What the loop pushes: the wrapped reserves in their native form, each once.
LEMMA PushedReserves ==
    ASSUME NEW R \in Seq(Reserve)
    PROVE  Sifted(Pushed(R), Reserve, Len(R), R, WrappedReserves, Unwrap)
<1> DEFINE op(q, r) == IF r.asset \in Wrapped THEN Append(q, [r EXCEPT !.asset = Unwrapped[@]]) ELSE q
           Rec(F) == F = [T \in SUBSET DOMAIN R |-> IF T = {} THEN <<>> ELSE op(F[T \ {Max(T)}], R[Max(T)])]
           F == CHOOSE F : Rec(F)
<1>1. Len(R) \in Nat /\ DOMAIN R = 1..Len(R) /\ R \in [1..Len(R) -> Reserve]
  BY LenProperties
<1>2. Pushed(R) = F[1..Len(R)]
  BY <1>1 DEF Pushed, FoldLeft, MapThenFoldSet
<1>3. ASSUME NEW q, NEW e \in Reserve
      PROVE  op(q, e) = IF e \in WrappedReserves THEN Append(q, Unwrap[e]) ELSE q
  <2>1. e \in WrappedReserves <=> e.asset \in Wrapped
    BY DEF WrappedReserves
  <2>2. ASSUME e \in WrappedReserves PROVE [e EXCEPT !.asset = Unwrapped[@]] = Unwrap[e]
    BY <2>2 DEF Unwrap, Reserve
  <2> QED
    BY <2>1, <2>2
<1> HIDE DEF op
<1>4. ASSUME NEW G PROVE Rec(G) <=> SiftFold(G, Len(R), R, WrappedReserves, Unwrap)
  <2>1. ASSUME NEW T \in SUBSET (1..Len(R)), T # {} PROVE R[Max(T)] \in Reserve
    BY <1>1, <2>1, LastPosition
  <2> QED
    BY <1>1, <1>3, <2>1 DEF SiftFold
<1>5. Unwrap \in [WrappedReserves -> Reserve]
  BY UnwrapTyped
<1>6. \E G : SiftFold(G, Len(R), R, WrappedReserves, Unwrap)
  BY <1>1, <1>5, SiftFoldExists
<1>7. SiftFold(F, Len(R), R, WrappedReserves, Unwrap)
  <2>1. Rec(F)
    BY <1>4, <1>6
  <2> HIDE DEF Rec, F
  <2> QED
    BY <1>4, <2>1
<1> DEFINE n == Len(R)
<1>8. n \in Nat /\ R \in [1..n -> Reserve] /\ SiftFold(F, n, R, WrappedReserves, Unwrap)
  BY <1>1, <1>7
<1> HIDE DEF F, n
<1>9. Sifted(F[1..n], Reserve, n, R, WrappedReserves, Unwrap)
  BY <1>5, <1>8, SiftFoldSifted
<1> QED
  BY <1>2, <1>9 DEF n

\* The native form of a token is none that is wrapped.
LEMMA NativeFormNative ==
    ASSUME NEW t \in Assets
    PROVE  NativeForm(t) \in Assets \ Wrapped /\ NativeForm(NativeForm(t)) = NativeForm(t)
  BY TokensAssumption DEF NativeForm, Wrapped

\* A reserve that is visited is one of the list, in the same form or unwrapped, and what
\* is wrapped is visited in its native form as well.
VisitsAll(V, R) ==
    /\ V \in Seq(Reserve)
    /\ \A i \in DOMAIN R : i \in DOMAIN V /\ V[i] = R[i]
    /\ \A i \in DOMAIN V : \E o \in DOMAIN R : /\ V[i].aToken = R[o].aToken
                                             /\ NativeForm(V[i].asset) = NativeForm(R[o].asset)
    /\ \A i \in DOMAIN V : V[i].asset \in Wrapped => \E j \in DOMAIN V : V[j].asset = Unwrapped[V[i].asset]

LEMMA VisitedReserves ==
    ASSUME NEW R \in Seq(Reserve)
    PROVE  VisitsAll(Visited(R), R)
<1> DEFINE P == Pushed(R)
           V == R \o P
           n == Len(R)
<1>1. Sifted(P, Reserve, n, R, WrappedReserves, Unwrap)
  BY PushedReserves
<1>2. Visited(R) = V
  BY DEF Visited
<1> HIDE DEF P
<1>3. PICK at : SiftedBy(P, at, R, n, WrappedReserves, Unwrap)
  BY <1>1 DEF Sifted
<1>4. P \in Seq(Reserve) /\ Len(P) \in Nat /\ DOMAIN P = 1..Len(P) /\ n \in Nat /\ DOMAIN R = 1..n
  BY <1>1, LenProperties DEF Sifted
<1>5. /\ V \in Seq(Reserve) /\ DOMAIN V = 1..(n + Len(P))
      /\ \A i \in 1..(n + Len(P)) : V[i] = IF i <= n THEN R[i] ELSE P[i - n]
  BY <1>4, ConcatProperties, LenProperties
<1> HIDE DEF V, n
<1>6. \A i \in 1..n : i \in DOMAIN V /\ V[i] = R[i] /\ R[i] \in Reserve
  <2>1. \A i \in 1..n : R[i] \in Reserve
    BY <1>4, ElementOfSeq DEF n
  <2> QED
    BY <1>4, <1>5, <2>1
<1>7. \A j \in 1..Len(P) : n + j \in DOMAIN V /\ V[n + j] = P[j]
  <2> SUFFICES ASSUME NEW j \in 1..Len(P) PROVE n + j \in DOMAIN V /\ V[n + j] = P[j]
    OBVIOUS
  <2>1. n + j \in 1..(n + Len(P)) /\ ~(n + j <= n) /\ (n + j) - n = j
    BY <1>4
  <2> QED
    BY <1>5, <2>1
<1>8. \A i \in DOMAIN V : i \in 1..n \/ \E j \in 1..Len(P) : i = n + j
  <2> SUFFICES ASSUME NEW i \in 1..(n + Len(P)), i \notin 1..n PROVE \E j \in 1..Len(P) : i = n + j
    BY <1>5
  <2>1. i - n \in 1..Len(P) /\ i = n + (i - n)
    BY <1>4
  <2> QED
    BY <2>1
<1>9. ASSUME NEW j \in 1..Len(P)
      PROVE  /\ at[j] \in 1..n /\ R[at[j]].asset \in Wrapped
             /\ P[j].aToken = R[at[j]].aToken /\ P[j].asset = Unwrapped[R[at[j]].asset]
  <2>1. at[j] \in 1..n /\ R[at[j]] \in WrappedReserves /\ P[j] = Unwrap[R[at[j]]]
    BY <1>3, <1>4 DEF SiftedBy
  <2> QED
    BY <2>1 DEF WrappedReserves, Unwrap
<1>10. \A i \in DOMAIN V : \E o \in DOMAIN R : /\ V[i].aToken = R[o].aToken
                                             /\ NativeForm(V[i].asset) = NativeForm(R[o].asset)
  <2> SUFFICES ASSUME NEW i \in DOMAIN V
               PROVE  \E o \in 1..n : /\ V[i].aToken = R[o].aToken
                                     /\ NativeForm(V[i].asset) = NativeForm(R[o].asset)
    BY <1>4
  <2>1. CASE i \in 1..n
    BY <1>6, <2>1
  <2>2. ASSUME NEW j \in 1..Len(P), i = n + j
        PROVE  \E o \in 1..n : /\ V[i].aToken = R[o].aToken
                              /\ NativeForm(V[i].asset) = NativeForm(R[o].asset)
    <3>1. NativeForm(P[j].asset) = NativeForm(R[at[j]].asset)
      BY <1>9, TokensAssumption DEF NativeForm, Wrapped
    <3> QED
      BY <1>7, <1>9, <2>2, <3>1
  <2> QED
    BY <1>8, <2>1, <2>2
<1>11. ASSUME NEW i \in DOMAIN V, V[i].asset \in Wrapped
       PROVE  \E j \in DOMAIN V : V[j].asset = Unwrapped[V[i].asset]
  <2>1. i \in 1..n
    <3> SUFFICES ASSUME NEW j \in 1..Len(P), i = n + j PROVE FALSE
      BY <1>8
    <3>1. V[i].asset = Unwrapped[R[at[j]].asset] /\ R[at[j]].asset \in Wrapped
      BY <1>7, <1>9
    <3> QED
      BY <1>11, <3>1, TokensAssumption DEF Wrapped
  <2>2. R[i] \in WrappedReserves
    BY <1>6, <1>11, <2>1 DEF WrappedReserves
  <2>3. PICK j \in 1..Len(P) : at[j] = i
    BY <1>3, <1>4, <2>1, <2>2 DEF SiftedBy
  <2> QED
    BY <1>6, <1>7, <1>9, <2>1, <2>3
<1> QED
  BY <1>2, <1>4, <1>5, <1>6, <1>10, <1>11 DEF VisitsAll

Keys(V) == UNION {Entries(V[i]) : i \in DOMAIN V}

\* Under a key one finds an entry that was stored under it.
LEMMA MapEntry ==
    ASSUME NEW V \in Seq(Reserve), NEW k \in Keys(V)
    PROVE  k \in DOMAIN ReserveMap(V) /\ \E m \in DOMAIN V : k \in Entries(V[m]) /\ ReserveMap(V)[k] = V[m]
<1> DEFINE last == CHOOSE i \in DOMAIN V : /\ k \in Entries(V[i])
                                         /\ \A j \in DOMAIN V : k \in Entries(V[j]) => j <= i
           T == {i \in DOMAIN V : k \in Entries(V[i])}
<1>1. Len(V) \in Nat /\ DOMAIN V = 1..Len(V)
  BY LenProperties
<1>2. T \in SUBSET (1..Len(V)) /\ T # {}
  BY <1>1 DEF Keys
<1>3. Max(T) \in T /\ \A i \in T : i <= Max(T)
  <2> HIDE DEF T
  <2> QED
    BY <1>1, <1>2, LastPosition
<1>4. last \in DOMAIN V /\ k \in Entries(V[last])
  BY <1>3
<1>5. k \in DOMAIN ReserveMap(V) /\ ReserveMap(V)[k] = V[last]
  BY DEF ReserveMap, Keys
<1> QED
  BY <1>4, <1>5

\* The two ways of translating, of one protocol.
Translates(config) ==
    \A i \in DOMAIN config.reserveTokens :
        LET asset == config.reserveTokens[i].asset
        IN  /\ asset \in DOMAIN config.reserveMap
            /\ ToProtocolToken(config, asset) \in DOMAIN config.reserveMap
            /\ NativeForm(ToUnderlyingToken(config, ToProtocolToken(config, asset))) = NativeForm(asset)

\* The rows of one list in a portfolio of one protocol.
Counts(config, list) ==
    LET rows == Rows(config, list)
    IN  /\ \A i, j \in DOMAIN rows : ToProtocolToken(config, rows[i]) = ToProtocolToken(config, rows[j]) => i = j
        /\ \A t \in Range(list) \cap DOMAIN config.reserveMap :
             NativeForm(t) \in Range(list) => NativeForm(t) \in Range(rows)

\* What is known of a configuration made from a list of reserves.
IsConfig(config, V, R) ==
    /\ IsReserveList(R) /\ VisitsAll(V, R)
    /\ config.reserveTokens = V /\ config.reserveMap = ReserveMap(V)
    /\ config.hasNativeToken <=> \E i \in DOMAIN V : IsNative(V[i].asset)

LEMMA ConfigMade ==
    ASSUME NEW R, IsReserveList(R)
    PROVE  IsConfig(InitializeReservesConfig(R), Visited(R), R)
  BY VisitedReserves DEF IsReserveList, IsConfig, InitializeReservesConfig, Visited

\* An asset's key leads to a receipt token of its native form.
LEMMA AssetKey ==
    ASSUME NEW config, NEW V, NEW R, IsConfig(config, V, R), NEW t \in Assets, t \in Keys(V)
    PROVE  /\ t \in DOMAIN config.reserveMap
           /\ \E m \in DOMAIN V : /\ ToProtocolToken(config, t) = V[m].aToken
                                /\ NativeForm(V[m].asset) = NativeForm(t)
<1>1. V \in Seq(Reserve) /\ config.reserveMap = ReserveMap(V)
  BY DEF IsConfig, VisitsAll
<1>2. PICK m \in DOMAIN V : t \in Entries(V[m]) /\ ReserveMap(V)[t] = V[m] /\ t \in DOMAIN ReserveMap(V)
  BY <1>1, MapEntry
<1>3. V[m] \in Reserve
  BY <1>1, ElementOfSeq, LenProperties
<1>4. t # V[m].aToken /\ V[m].asset \in Assets
  BY <1>3, TokensAssumption DEF Reserve
<1>5. t = V[m].asset \/ (V[m].asset \in Wrapped /\ t = Unwrapped[V[m].asset])
  BY <1>2, <1>4 DEF Entries
<1>6. NativeForm(V[m].asset) = NativeForm(t)
  BY <1>4, <1>5, TokensAssumption DEF NativeForm, Wrapped
<1> QED
  BY <1>1, <1>2, <1>6 DEF ToProtocolToken

\* Visited reserves with one receipt token have one native form.
LEMMA SameReceipt ==
    ASSUME NEW V, NEW R, IsReserveList(R), VisitsAll(V, R),
           NEW i \in DOMAIN V, NEW j \in DOMAIN V, V[i].aToken = V[j].aToken
    PROVE  NativeForm(V[i].asset) = NativeForm(V[j].asset)
<1>1. PICK o \in DOMAIN R : V[i].aToken = R[o].aToken /\ NativeForm(V[i].asset) = NativeForm(R[o].asset)
  BY DEF VisitsAll
<1>2. PICK p \in DOMAIN R : V[j].aToken = R[p].aToken /\ NativeForm(V[j].asset) = NativeForm(R[p].asset)
  BY DEF VisitsAll
<1>3. o = p
  BY <1>1, <1>2 DEF IsReserveList
<1> QED
  BY <1>1, <1>2, <1>3

LEMMA ConfigTranslates ==
    ASSUME NEW config, NEW V, NEW R, IsConfig(config, V, R)
    PROVE  Translates(config)
<1>1. V \in Seq(Reserve) /\ config.reserveMap = ReserveMap(V) /\ config.reserveTokens = V
      /\ IsReserveList(R) /\ VisitsAll(V, R)
  BY DEF IsConfig, VisitsAll
<1>2. ASSUME NEW i \in DOMAIN V
      PROVE  /\ V[i].asset \in DOMAIN config.reserveMap
             /\ ToProtocolToken(config, V[i].asset) \in DOMAIN config.reserveMap
             /\ NativeForm(ToUnderlyingToken(config, ToProtocolToken(config, V[i].asset))) = NativeForm(V[i].asset)
  <2>1. V[i] \in Reserve
    BY <1>1, ElementOfSeq, LenProperties
  <2>2. V[i].asset \in Assets /\ V[i].asset \in Keys(V)
    BY <2>1 DEF Reserve, Keys, Entries
  <2>3. PICK m \in DOMAIN V : /\ ToProtocolToken(config, V[i].asset) = V[m].aToken
                            /\ NativeForm(V[m].asset) = NativeForm(V[i].asset)
    BY <2>2, AssetKey
  <2> DEFINE x == V[m].aToken
  <2>4. x \in Keys(V)
    BY DEF Keys, Entries
  <2>5. PICK q \in DOMAIN V : x \in Entries(V[q]) /\ ReserveMap(V)[x] = V[q] /\ x \in DOMAIN ReserveMap(V)
    BY <1>1, <2>4, MapEntry
  <2>6. V[q] \in Reserve /\ V[m] \in Reserve
    BY <1>1, ElementOfSeq, LenProperties
  <2>7. x = V[q].aToken
    <3>1. x \in ReceiptTokens /\ V[q].asset \in Assets
      BY <2>6 DEF Reserve
    <3>2. V[q].asset \in Wrapped => Unwrapped[V[q].asset] \in Assets
      BY TokensAssumption DEF Wrapped
    <3> QED
      BY <2>5, <3>1, <3>2, TokensAssumption DEF Entries
  <2>8. NativeForm(V[q].asset) = NativeForm(V[m].asset)
    BY <1>1, <2>7, SameReceipt
  <2>9. ToUnderlyingToken(config, x) = V[q].asset
    BY <1>1, <2>5 DEF ToUnderlyingToken
  <2> QED
    BY <1>1, <2>2, <2>3, <2>5, <2>8, <2>9, AssetKey
<1> QED
  BY <1>1, <1>2 DEF Translates

Shown(config) == {t \in Assets : HasRow(config, t)}
Same(S) == [t \in S |-> t]

\* The rows are the shown tokens of the list, each once.
LEMMA RowsOfList ==
    ASSUME NEW config, NEW list \in Seq(Assets)
    PROVE  Sifted(Rows(config, list), Assets, Len(list), list, Shown(config), Same(Shown(config)))
<1> DEFINE op(rows, t) == IF HasRow(config, t) THEN Append(rows, t) ELSE rows
           Rec(F) == F = [T \in SUBSET DOMAIN list |->
                            IF T = {} THEN <<>> ELSE op(F[T \ {Max(T)}], list[Max(T)])]
           F == CHOOSE F : Rec(F)
           n == Len(list)
           K == Shown(config)
<1>1. n \in Nat /\ DOMAIN list = 1..n /\ list \in [1..n -> Assets]
  BY LenProperties
<1>2. Rows(config, list) = F[1..n]
  BY <1>1 DEF Rows, FoldLeft, MapThenFoldSet
<1>3. ASSUME NEW q, NEW t \in Assets
      PROVE  op(q, t) = IF t \in K THEN Append(q, Same(K)[t]) ELSE q
  BY DEF Same, Shown
<1>4. Same(K) \in [K -> Assets]
  BY DEF Same, Shown
<1> HIDE DEF op, K, n
<1>5. ASSUME NEW G PROVE Rec(G) <=> SiftFold(G, n, list, K, Same(K))
  <2>1. ASSUME NEW T \in SUBSET (1..n), T # {} PROVE list[Max(T)] \in Assets
    BY <1>1, <2>1, LastPosition
  <2> QED
    BY <1>1, <1>3, <2>1 DEF SiftFold
<1>6. \E G : SiftFold(G, n, list, K, Same(K))
  BY <1>1, <1>4, SiftFoldExists
<1>7. SiftFold(F, n, list, K, Same(K))
  <2>1. Rec(F)
    BY <1>5, <1>6
  <2> HIDE DEF Rec, F
  <2> QED
    BY <1>5, <2>1
<1> HIDE DEF F
<1>8. Sifted(F[1..n], Assets, n, list, K, Same(K))
  BY <1>1, <1>4, <1>7, SiftFoldSifted
<1> QED
  BY <1>2, <1>8 DEF n, K

LEMMA ConfigCounts ==
    ASSUME NEW config, NEW V, NEW R, IsConfig(config, V, R),
           NEW list \in Seq(Assets), IsInjective(list)
    PROVE  Counts(config, list)
<1> DEFINE rows == Rows(config, list)
           K == Shown(config)
           n == Len(list)
<1>1. Sifted(rows, Assets, n, list, K, Same(K))
  BY RowsOfList
<1>2. V \in Seq(Reserve) /\ config.reserveMap = ReserveMap(V) /\ config.reserveTokens = V
      /\ IsReserveList(R) /\ VisitsAll(V, R) /\ (config.hasNativeToken <=> \E i \in DOMAIN V : IsNative(V[i].asset))
  BY DEF IsConfig, VisitsAll
<1> HIDE DEF rows
<1>3. PICK at : SiftedBy(rows, at, list, n, K, Same(K))
  BY <1>1 DEF Sifted
<1>4. n \in Nat /\ DOMAIN list = 1..n
  BY LenProperties
<1> HIDE DEF n
<1>5. /\ at \in [DOMAIN rows -> 1..n]
      /\ \A i, j \in DOMAIN rows : at[i] = at[j] => i = j
      /\ \A i \in DOMAIN rows : list[at[i]] \in K /\ rows[i] = list[at[i]]
      /\ \A m \in 1..n : list[m] \in K => \E i \in DOMAIN rows : at[i] = m
  BY <1>3 DEF SiftedBy, Same
\* A row is of a visited token in its native form.
<1>6. ASSUME NEW t \in K
      PROVE  t \in Assets /\ t \notin Wrapped /\ t \in Keys(V)
  <2>1. PICK i \in DOMAIN V : V[i].asset = t
    BY <1>2, <1>6 DEF Shown, HasRow
  <2>2. t \in Keys(V)
    BY <2>1 DEF Keys, Entries
  <2>3. ASSUME t \in Wrapped PROVE FALSE
    <3>1. PICK j \in DOMAIN V : V[j].asset = Unwrapped[t]
      BY <1>2, <2>1, <2>3 DEF VisitsAll
    <3>2. IsNative(V[j].asset)
      BY <2>3, <3>1 DEF IsNative
    <3> QED
      BY <1>2, <2>3, <3>2 DEF Shown, HasRow
  <2> QED
    BY <2>2, <2>3 DEF Shown
<1>7. ASSUME NEW i \in DOMAIN rows, NEW j \in DOMAIN rows,
             ToProtocolToken(config, rows[i]) = ToProtocolToken(config, rows[j])
      PROVE  i = j
  <2>1. rows[i] \in K /\ rows[j] \in K
    BY <1>5
  <2>2. PICK m \in DOMAIN V : /\ ToProtocolToken(config, rows[i]) = V[m].aToken
                            /\ NativeForm(V[m].asset) = NativeForm(rows[i])
    BY <1>6, <2>1, AssetKey
  <2>3. PICK p \in DOMAIN V : /\ ToProtocolToken(config, rows[j]) = V[p].aToken
                            /\ NativeForm(V[p].asset) = NativeForm(rows[j])
    BY <1>6, <2>1, AssetKey
  <2>4. NativeForm(V[m].asset) = NativeForm(V[p].asset)
    <3>1. V[m].aToken = V[p].aToken
      BY <1>7, <2>2, <2>3
    <3> QED
      BY <1>2, <3>1, SameReceipt
  <2>5. rows[i] = rows[j]
    BY <1>6, <2>1, <2>2, <2>3, <2>4 DEF NativeForm
  <2>6. list[at[i]] = list[at[j]] /\ at[i] \in DOMAIN list /\ at[j] \in DOMAIN list
    BY <1>4, <1>5, <2>5
  <2> QED
    BY <1>5, <2>6 DEF IsInjective
\* A listed key is a visited token, or what one is unwrapped to.
<1>8. ASSUME NEW t \in Range(list) \cap DOMAIN config.reserveMap, NativeForm(t) \in Range(list)
      PROVE  NativeForm(t) \in Range(rows)
  <2>1. t \in Assets
    <3>1. PICK i \in DOMAIN list : list[i] = t
      BY DEF Range
    <3> QED
      BY <1>4, <3>1, ElementOfSeq DEF n
  <2>2. PICK q \in DOMAIN V : t \in Entries(V[q])
    BY <1>2 DEF ReserveMap
  <2>3. V[q] \in Reserve
    BY <1>2, ElementOfSeq, LenProperties
  <2>4. t # V[q].aToken
    BY <2>1, <2>3, TokensAssumption DEF Reserve
  <2>5. t = V[q].asset \/ (V[q].asset \in Wrapped /\ t = Unwrapped[V[q].asset])
    BY <2>2, <2>4 DEF Entries
  <2>6. \E j \in DOMAIN V : V[j].asset = NativeForm(t)
    <3>1. CASE V[q].asset \in Wrapped
      <4>1. PICK j \in DOMAIN V : V[j].asset = Unwrapped[V[q].asset]
        BY <1>2, <3>1 DEF VisitsAll
      <4>2. NativeForm(t) = Unwrapped[V[q].asset]
        BY <2>5, <3>1, TokensAssumption DEF NativeForm, Wrapped
      <4> QED
        BY <4>1, <4>2
    <3>2. CASE V[q].asset \notin Wrapped
      BY <2>5, <3>2 DEF NativeForm
    <3> QED
      BY <3>1, <3>2
  <2>7. NativeForm(t) \in K
    <3>1. NativeForm(t) \in Assets \ Wrapped
      BY <2>1, NativeFormNative
    <3> QED
      BY <1>2, <2>6, <3>1 DEF Shown, HasRow
  <2>8. PICK m \in DOMAIN list : list[m] = NativeForm(t)
    BY <1>8 DEF Range
  <2>9. PICK i \in DOMAIN rows : at[i] = m
    BY <1>4, <1>5, <2>7, <2>8
  <2>10. rows[i] = NativeForm(t)
    BY <1>5, <2>8, <2>9
  <2> QED
    BY <2>10 DEF Range
<1> QED
  BY <1>7, <1>8 DEF Counts, rows

-----------------------------------------------------------------------------
(* The creation of adapters.                                               *)

Awaiting == {"created", "cdn", "chain"}

\* Every supported protocol that was registered at the call is there, or comes at the
\* position of the loop or later.
Ahead(s, P, from) ==
    \A p \in s.known \cap Supported :
        p \in DOMAIN s.protocolMap \/ \E k \in from..Len(P) : P[k] = p

\* What an adapter has is supported, and configured by one of the two answers.
Configured(s) ==
    /\ DOMAIN s.protocolMap \subseteq Supported
    /\ \A p \in DOMAIN s.protocolMap \cap Forks : s.protocolMap[p] \in {CdnConfig, ChainConfig}

HasFields(s) == {"pc", "creating", "protocolMap", "known"} \subseteq DOMAIN s

AdapterOK(s, P) ==
    /\ HasFields(s)
    /\ s.pc \in {"idle", "created", "cdn", "chain", "ready", "rejected"}
    /\ s.creating \in 0..Len(P)
    /\ s.pc \in Awaiting => s.creating # 0 /\ P[s.creating] \in Supported /\ Ahead(s, P, s.creating)
    /\ s.pc = "created" => P[s.creating] \notin Forks
    /\ s.pc = "ready" => s.known \cap Supported \subseteq DOMAIN s.protocolMap
    /\ Configured(s)

CInv ==
    /\ Protocols \in Seq(ProtocolIds) /\ IsInjective(Protocols)
    /\ adapters = [a \in Adapters |-> adapters[a]]
    /\ \A a \in Adapters : AdapterOK(adapters[a], Protocols)

LEMMA InitCInv == ConfigInit => CInv
<1> SUFFICES ASSUME ConfigInit PROVE CInv
  OBVIOUS
<1>1. adapters = [a \in Adapters |-> NewAdapter] /\ Protocols = Registered
  BY DEF ConfigInit
<1>2. Protocols \in Seq(ProtocolIds) /\ IsInjective(Protocols) /\ Len(Protocols) \in Nat
  BY <1>1, RegisteredAssumption, LenProperties
<1>3. AdapterOK(NewAdapter, Protocols)
  BY <1>2 DEF AdapterOK, NewAdapter, HasFields, Awaiting, Configured
<1> HIDE DEF NewAdapter
<1> QED
  BY <1>1, <1>2, <1>3 DEF CInv

\* The loop goes on: it skips nothing that is supported.
LEMMA ProceedStep ==
    ASSUME CInv, NEW a \in Adapters, NEW s, NEW i \in 0..Len(Protocols),
           Proceed(a, s, i), UNCHANGED Protocols,
           HasFields(s), Configured(s), Ahead(s, Protocols, i + 1)
    PROVE  CInv'
<1> DEFINE U == Upcoming(i)
           j == CHOOSE j \in U : \A k \in U : j <= k
           ready == [s EXCEPT !.pc = "ready", !.creating = 0]
           next == [s EXCEPT !.pc = IF Protocols[j] \in Forks THEN "cdn" ELSE "created", !.creating = j]
           t == IF U = {} THEN ready ELSE next
<1>1. adapters' = [adapters EXCEPT ![a] = t] /\ Protocols' = Protocols
  BY DEF Proceed
<1>2. Len(Protocols) \in Nat
  BY LenProperties DEF CInv
<1>3. U = {k \in i + 1..Len(Protocols) : Protocols[k] \in Supported}
  BY DEF Upcoming
<1> HIDE DEF U
<1>4. U \subseteq Nat
  BY <1>2, <1>3
<1>5. ASSUME NEW p \in s.known \cap Supported
      PROVE  p \in DOMAIN s.protocolMap \/ \E k \in U : Protocols[k] = p
  BY <1>3 DEF Ahead
<1>6. ASSUME U = {} PROVE AdapterOK(t, Protocols)
  <2>1. /\ HasFields(ready) /\ ready.pc = "ready" /\ ready.creating = 0
        /\ ready.known = s.known /\ ready.protocolMap = s.protocolMap
    BY DEF HasFields
  <2>2. t = ready
    BY <1>6
  <2> HIDE DEF ready
  <2>3. Configured(ready)
    BY <2>1 DEF Configured
  <2>4. s.known \cap Supported \subseteq DOMAIN s.protocolMap
    BY <1>5, <1>6
  <2>5. 0 \in 0..Len(Protocols) /\ "ready" \notin Awaiting
    BY <1>2 DEF Awaiting
  <2>6. AdapterOK(ready, Protocols)
    BY <2>1, <2>3, <2>4, <2>5 DEF AdapterOK
  <2> QED
    BY <2>2, <2>6
<1>7. ASSUME U # {} PROVE AdapterOK(t, Protocols)
  <2>1. j \in U /\ \A k \in U : j <= k
    BY <1>4, <1>7, LeastElement
  <2>2. t = next
    BY <1>7
  <2> HIDE DEF j
  <2>3. /\ HasFields(next) /\ next.creating = j
        /\ next.pc = IF Protocols[j] \in Forks THEN "cdn" ELSE "created"
        /\ next.known = s.known /\ next.protocolMap = s.protocolMap
    BY DEF HasFields
  <2> HIDE DEF next
  <2>4. Configured(next)
    BY <2>3 DEF Configured
  <2>5. j \in 1..Len(Protocols) /\ Protocols[j] \in Supported
    BY <1>2, <1>3, <2>1
  <2>6. \A k \in U : k \in j..Len(Protocols)
    BY <1>2, <1>3, <2>1, <2>5
  <2>7. Ahead(next, Protocols, j)
    BY <1>5, <2>3, <2>6 DEF Ahead
  <2>8. AdapterOK(next, Protocols)
    BY <1>2, <2>3, <2>4, <2>5, <2>7 DEF AdapterOK, Awaiting
  <2> QED
    BY <2>2, <2>8
<1>8. AdapterOK(t, Protocols)
  BY <1>6, <1>7
<1> HIDE DEF t
<1>9. adapters'[a] = t /\ \A b \in Adapters \ {a} : adapters'[b] = adapters[b]
  BY <1>1 DEF CInv
<1>10. adapters' = [b \in Adapters |-> adapters'[b]]
  BY <1>1 DEF CInv
<1> QED
  BY <1>1, <1>8, <1>9, <1>10 DEF CInv

\* The awaited protocol joins the others.
LEMMA CreateStep ==
    ASSUME CInv, NEW a \in Adapters, NEW config, Create(a, config), UNCHANGED Protocols,
           adapters[a].pc \in Awaiting,
           Protocols[adapters[a].creating] \in Forks => config \in {CdnConfig, ChainConfig}
    PROVE  CInv'
<1> DEFINE s == adapters[a]
           i == s.creating
           id == Protocols[i]
           map == [p \in DOMAIN s.protocolMap \cup {id} |-> IF p = id THEN config ELSE s.protocolMap[p]]
           t == [s EXCEPT !.protocolMap = map]
<1>1. AdapterOK(s, Protocols) /\ s.pc \in Awaiting
  BY DEF CInv
<1>2. Proceed(a, t, i)
  BY DEF Create
<1>3. Len(Protocols) \in Nat
  BY LenProperties DEF CInv
<1> HIDE DEF s, map
<1>4. HasFields(t) /\ t.protocolMap = map /\ t.known = s.known
  BY <1>1 DEF AdapterOK, HasFields
<1>5. DOMAIN map = DOMAIN s.protocolMap \cup {id}
  BY DEF map
<1> HIDE DEF t
<1>6. Configured(t)
  <2>1. DOMAIN map \subseteq Supported
    BY <1>1, <1>5 DEF AdapterOK, Configured
  <2>2. ASSUME NEW p \in DOMAIN map \cap Forks PROVE map[p] \in {CdnConfig, ChainConfig}
    <3>1. CASE p = id
      BY <1>5, <3>1 DEF map, s
    <3>2. CASE p # id
      BY <1>1, <1>5, <3>2 DEF map, AdapterOK, Configured
    <3> QED
      BY <3>1, <3>2
  <2> QED
    BY <1>4, <2>1, <2>2 DEF Configured
<1>7. i \in 0..Len(Protocols) /\ i # 0 /\ Ahead(s, Protocols, i)
  BY <1>1 DEF AdapterOK
<1>8. Ahead(t, Protocols, i + 1)
  <2> HIDE DEF i
  <2>1. \A k \in i..Len(Protocols) : k = i \/ k \in i + 1..Len(Protocols)
    BY <1>3, <1>7
  <2> QED
    BY <1>4, <1>5, <1>7, <2>1 DEF Ahead
<1> HIDE DEF i
<1> QED
  BY <1>2, <1>4, <1>6, <1>7, <1>8, ProceedStep

\* The adapter moves on without a protocol.
LEMMA WaitStep ==
    ASSUME CInv, NEW a \in Adapters, NEW pc \in {"chain", "rejected"},
           adapters[a].pc \in {"cdn", "chain"},
           adapters' = [adapters EXCEPT ![a].pc = pc], UNCHANGED Protocols
    PROVE  CInv'
<1> DEFINE s == adapters[a]
           t == [s EXCEPT !.pc = pc]
<1>1. AdapterOK(s, Protocols) /\ s.pc \in Awaiting /\ s.pc # "created"
  BY DEF CInv, Awaiting
<1>2. adapters' = [adapters EXCEPT ![a] = t]
  OBVIOUS
<1> HIDE DEF s
<1>3. /\ HasFields(t) /\ t.pc = pc /\ t.creating = s.creating
      /\ t.protocolMap = s.protocolMap /\ t.known = s.known
  BY <1>1 DEF AdapterOK, HasFields
<1> HIDE DEF t
<1>4. AdapterOK(t, Protocols)
  BY <1>1, <1>3 DEF AdapterOK, Awaiting, Ahead, Configured
<1>5. adapters'[a] = t /\ \A b \in Adapters \ {a} : adapters'[b] = adapters[b]
  BY <1>2 DEF CInv
<1>6. adapters' = [b \in Adapters |-> adapters'[b]]
  BY <1>2 DEF CInv
<1> QED
  BY <1>4, <1>5, <1>6 DEF CInv

\* Another protocol is registered, behind those there are.
LEMMA RegisterStep ==
    ASSUME CInv, NEW p \in ProtocolIds, RegisterProtocol(p)
    PROVE  CInv'
<1> DEFINE P == Protocols
           Q == Append(P, p)
<1>1. p \notin Range(P) /\ Protocols' = Q /\ adapters' = adapters
  BY DEF RegisterProtocol
<1>2. P \in Seq(ProtocolIds) /\ IsInjective(P) /\ Len(P) \in Nat /\ DOMAIN P = 1..Len(P)
  BY LenProperties DEF CInv
<1>3. /\ Q \in Seq(ProtocolIds) /\ Len(Q) = Len(P) + 1 /\ DOMAIN Q = 1..(Len(P) + 1)
      /\ \A i \in 1..Len(P) : Q[i] = P[i]
      /\ Q[Len(P) + 1] = p
  BY <1>2, AppendProperties, LenProperties
<1> HIDE DEF Q
<1>4. \A i \in 1..(Len(P) + 1) : i \in 1..Len(P) \/ i = Len(P) + 1
  BY <1>2
<1>5. IsInjective(Q)
  <2>1. \A i \in 1..Len(P) : P[i] # p
    BY <1>1, <1>2 DEF Range
  <2>2. \A i, j \in 1..Len(P) : P[i] = P[j] => i = j
    BY <1>2 DEF IsInjective
  <2> QED
    BY <1>3, <1>4, <2>1, <2>2 DEF IsInjective
<1>6. ASSUME NEW s, AdapterOK(s, P) PROVE AdapterOK(s, Q)
  <2>1. s.creating \in 0..Len(P) /\ s.creating \in 0..Len(Q)
    BY <1>2, <1>3, <1>6 DEF AdapterOK
  <2>2. s.creating # 0 => Q[s.creating] = P[s.creating]
    BY <1>2, <1>3, <2>1
  <2>3. s.creating # 0 /\ Ahead(s, P, s.creating) => Ahead(s, Q, s.creating)
    <3> SUFFICES ASSUME s.creating # 0, NEW k \in s.creating..Len(P)
                 PROVE  k \in s.creating..Len(Q) /\ Q[k] = P[k]
      BY DEF Ahead
    <3> QED
      BY <1>2, <1>3, <2>1
  <2>4. s.pc \in {"created"} => s.creating # 0
    BY <1>6 DEF AdapterOK, Awaiting
  <2> QED
    BY <1>6, <2>1, <2>2, <2>3, <2>4 DEF AdapterOK
<1> QED
  BY <1>1, <1>3, <1>5, <1>6 DEF CInv

LEMMA NextCInv == CInv /\ [ConfigNext]_configVars => CInv'
<1> SUFFICES ASSUME CInv, [ConfigNext]_configVars PROVE CInv'
  OBVIOUS
<1>1. CASE UNCHANGED configVars
  BY <1>1 DEF configVars, CInv
<1>2. ASSUME NEW p \in ProtocolIds, RegisterProtocol(p) PROVE CInv'
  BY <1>2, RegisterStep
<1>3. ASSUME NEW a \in Adapters, CreateAdapter(a) PROVE CInv'
  <2> DEFINE s == [NewAdapter EXCEPT !.known = Range(Protocols)]
  <2>1. Proceed(a, s, 0) /\ UNCHANGED Protocols
    BY <1>3 DEF CreateAdapter
  <2>2. HasFields(s) /\ Configured(s) /\ s.known = Range(Protocols)
    BY DEF NewAdapter, HasFields, Configured
  <2>3. Len(Protocols) \in Nat /\ DOMAIN Protocols = 1..Len(Protocols)
    BY LenProperties DEF CInv
  <2> HIDE DEF s
  <2>4. Ahead(s, Protocols, 0 + 1)
    BY <2>2, <2>3 DEF Ahead, Range
  <2>5. 0 \in 0..Len(Protocols)
    BY <2>3
  <2> QED
    BY <2>1, <2>2, <2>4, <2>5, ProceedStep
<1>4. ASSUME NEW a \in Adapters, Created(a) PROVE CInv'
  <2>1. Create(a, NoConfig) /\ UNCHANGED Protocols /\ adapters[a].pc = "created"
    BY <1>4 DEF Created
  <2>2. adapters[a].pc \in Awaiting /\ Protocols[adapters[a].creating] \notin Forks
    BY <2>1 DEF CInv, AdapterOK, Awaiting
  <2> QED
    BY <2>1, <2>2, CreateStep
<1>5. ASSUME NEW a \in Adapters, ReceiveCdn(a) \/ ReceiveChain(a) PROVE CInv'
  <2>1. PICK config \in {CdnConfig, ChainConfig} : Create(a, config) /\ UNCHANGED Protocols
    BY <1>5 DEF ReceiveCdn, ReceiveChain
  <2>2. adapters[a].pc \in Awaiting
    BY <1>5 DEF ReceiveCdn, ReceiveChain, Awaiting
  <2> QED
    BY <2>1, <2>2, CreateStep
<1>6. ASSUME NEW a \in Adapters, CdnFails(a) \/ ChainFails(a) PROVE CInv'
  BY <1>6, WaitStep DEF CdnFails, ChainFails
<1> QED
  BY <1>1, <1>2, <1>3, <1>4, <1>5, <1>6 DEF ConfigNext

\* Every configuration is of one of the two lists.
LEMMA ConfigOfReserves ==
    ASSUME NEW config \in {CdnConfig, ChainConfig}
    PROVE  \E R \in {CdnReserves, ChainReserves} : IsConfig(config, Visited(R), R)
<1>1. PICK R \in {CdnReserves, ChainReserves} : config = InitializeReservesConfig(R)
  BY DEF CdnConfig, ChainConfig
<1>2. IsReserveList(R)
  BY ReservesAssumption DEF IsReserveList, Reserve
<1> QED
  BY <1>1, <1>2, ConfigMade

LEMMA ConfigsMade ==
    ASSUME CInv, NEW a \in Adapters, NEW config \in Configs(a)
    PROVE  \E R \in {CdnReserves, ChainReserves} : IsConfig(config, Visited(R), R)
<1>1. config \in {CdnConfig, ChainConfig}
  BY DEF CInv, AdapterOK, Configured, Configs
<1> QED
  BY <1>1, ConfigOfReserves

LEMMA Whole == CInv => WholeAdapter
<1> SUFFICES ASSUME CInv, NEW a \in Adapters, Ready(a)
             PROVE  /\ adapters[a].known \cap Supported \subseteq DOMAIN adapters[a].protocolMap
                    /\ \A config \in Configs(a) :
                         \E reserves \in {CdnReserves, ChainReserves} :
                           \A i \in DOMAIN reserves : reserves[i].asset \in DOMAIN config.reserveMap
  BY DEF WholeAdapter
<1>1. adapters[a].known \cap Supported \subseteq DOMAIN adapters[a].protocolMap
  BY DEF CInv, AdapterOK, Ready
<1>2. ASSUME NEW config \in Configs(a)
      PROVE  \E reserves \in {CdnReserves, ChainReserves} :
               \A i \in DOMAIN reserves : reserves[i].asset \in DOMAIN config.reserveMap
  <2>1. PICK R \in {CdnReserves, ChainReserves} : IsConfig(config, Visited(R), R)
    BY ConfigsMade
  <2>2. ASSUME NEW i \in DOMAIN R PROVE R[i].asset \in DOMAIN config.reserveMap
    <3>1. i \in DOMAIN Visited(R) /\ Visited(R)[i] = R[i]
      BY <2>1 DEF IsConfig, VisitsAll
    <3>2. R[i].asset \in Keys(Visited(R))
      BY <3>1 DEF Keys, Entries
    <3> QED
      BY <2>1, <3>2 DEF IsConfig, ReserveMap, Keys
  <2> QED
    BY <2>2
<1> QED
  BY <1>1, <1>2

LEMMA Translated == CInv => TranslatesBack
<1> SUFFICES ASSUME CInv, NEW a \in Adapters, NEW config \in Configs(a)
             PROVE  Translates(config)
  BY DEF TranslatesBack, Translates
<1> QED
  BY ConfigsMade, ConfigTranslates

LEMMA Counted == CInv => CountedOnce
<1> SUFFICES ASSUME CInv, NEW a \in Adapters, NEW config \in Configs(a), NEW list \in TokenLists
             PROVE  Counts(config, list)
  BY DEF CountedOnce, Counts
<1>1. list \in Seq(Assets) /\ IsInjective(list)
  BY ListsAssumption
<1> QED
  BY <1>1, ConfigsMade, ConfigCounts

LEMMA SpecCInv == FairSpec => []CInv
<1>1. Init => CInv
  BY InitCInv DEF Init
<1>2. CInv /\ [Next]_vars => CInv'
  BY NextCInv DEF Next, vars
<1> QED
  BY <1>1, <1>2, PTL DEF FairSpec

\* An adapter that is handed out has every supported protocol registered when it was asked
\* for, whatever is registered meanwhile and whichever of CDN and chain answers, and each
\* configuration has every reserve of its source.
THEOREM AdaptersAreWhole == FairSpec => []WholeAdapter
  BY SpecCInv, Whole, PTL

\* In every adapter an asset and its receipt token translate to each other and back, for
\* any list of reserves in which every reserve has a receipt token of its own.
THEOREM AlwaysTranslatesBack == FairSpec => []TranslatesBack
  BY SpecCInv, Translated, PTL

\* No balance is in a portfolio twice, in whatever forms the reserves and the lists have
\* ether, and no reserve is missing that a list has in its native form.  (A list that has
\* only the wrapped token loses the reserve: aave-v3/lending-protocol.ts:330.)
THEOREM AlwaysCountedOnce == FairSpec => []CountedOnce
  BY SpecCInv, Counted, PTL

-----------------------------------------------------------------------------
(* getTokens: where the running index is after each address.               *)

Pieces == UNION {{Answers(a)[1], Answers(a)[2], Answers(a)[3]} : a \in Addresses \ Natives}

\* What one address contributes to the answer of the multicall.
Block(a) == IF a \in Natives THEN <<>> ELSE Answers(a)

LEMMA AnswersTyped ==
    ASSUME NEW a \in Addresses, a \notin Natives
    PROVE  /\ Answers(a) \in Seq(Pieces) /\ Len(Answers(a)) = 3
           /\ Answers(a)[1] = Decoded(a, "decimals", MetadataOf[a].decimals)
           /\ Answers(a)[2] = Decoded(a, "symbol", MetadataOf[a].symbol)
           /\ Answers(a)[3] = Decoded(a, "name", MetadataOf[a].name)
<1> DEFINE d == Decoded(a, "decimals", MetadataOf[a].decimals)
           s == Decoded(a, "symbol", MetadataOf[a].symbol)
           m == Decoded(a, "name", MetadataOf[a].name)
<1>1. Answers(a) = <<d, s, m>>
  BY DEF Answers
<1> HIDE DEF d, s, m
<1>2. Answers(a)[1] = d /\ Answers(a)[2] = s /\ Answers(a)[3] = m
  BY <1>1
<1>3. d \in Pieces /\ s \in Pieces /\ m \in Pieces
  BY <1>2 DEF Pieces
<1>4. <<d, s, m>> \in Seq(Pieces) /\ Len(<<d, s, m>>) = 3
  BY <1>3
<1> QED
  BY <1>1, <1>2, <1>4 DEF d, s, m

\* d[i] is what the first i addresses contribute; the answers of a contract stand where
\* those before it end.
Lays(d, wanted) ==
    /\ d[0] = <<>> /\ ReturnData(wanted) = d[Len(wanted)]
    /\ \A i \in 0..Len(wanted) : Len(d[i]) \in Nat /\ Len(d[i]) <= Len(d[Len(wanted)])
    /\ \A i \in 1..Len(wanted) : wanted[i] \in Natives => Len(d[i]) = Len(d[i - 1])
    /\ \A i \in 1..Len(wanted) : wanted[i] \notin Natives =>
         /\ Len(d[i]) = Len(d[i - 1]) + 3
         /\ \A k \in 1..3 : At(ReturnData(wanted), Len(d[i - 1]) + k) = Answers(wanted[i])[k]

LEMMA DataLaid ==
    ASSUME NEW wanted \in Seq(Addresses)
    PROVE  (\E d : Lays(d, wanted)) /\ ReturnData(wanted) \in Seq(Pieces)
<1> DEFINE n == Len(wanted)
           blocks == [i \in 1..n |-> Block(wanted[i])]
           data == ReturnData(wanted)
<1>1. n \in Nat /\ DOMAIN wanted = 1..n /\ \A i \in 1..n : wanted[i] \in Addresses
  BY LenProperties
<1>2. data = FlattenSeq(blocks)
  BY <1>1 DEF ReturnData, Block
<1>3. ASSUME NEW i \in 1..n
      PROVE  Block(wanted[i]) \in Seq(Pieces) /\ Len(Block(wanted[i])) = IF wanted[i] \in Natives THEN 0 ELSE 3
  BY <1>1, AnswersTyped, EmptySeq DEF Block
<1>4. blocks \in [1..n -> Seq(Pieces)] /\ \A i \in 1..n : blocks[i] = Block(wanted[i])
  BY <1>3
<1> HIDE DEF n, blocks, data
<1>5. PICK d : Flattens(d, Pieces, n, blocks) /\ FlattenSeq(blocks) = d[n]
  BY <1>1, <1>4, Flattened
<1>6. \A i \in 0..n : /\ d[i] \in Seq(Pieces) /\ Len(d[i]) \in Nat /\ Len(d[i]) <= Len(d[n])
                      /\ \A k \in 1..Len(d[i]) : d[n][k] = d[i][k]
  <2>1. \A i \in 0..n : d[i] \in Seq(Pieces)
    BY <1>5 DEF Flattens
  <2>2. ASSUME NEW i \in 0..n PROVE Stays(d, i, n)
    BY <1>1, <1>4, <1>5, FlattenPrefix
  <2> QED
    BY <2>1, <2>2 DEF Stays
<1>7. n \in 0..n
  BY <1>1
<1>8. data = d[n] /\ data \in Seq(Pieces) /\ DOMAIN data = 1..Len(d[n])
  BY <1>2, <1>5, <1>6, <1>7, LenProperties
<1>9. ASSUME NEW i \in 1..n
      PROVE  /\ Len(d[i]) = Len(d[i - 1]) + Len(Block(wanted[i]))
             /\ \A k \in 1..Len(Block(wanted[i])) : At(data, Len(d[i - 1]) + k) = Block(wanted[i])[k]
  <2> DEFINE b == Block(wanted[i])
             q == d[i - 1]
  <2>1. i - 1 \in 0..n /\ i \in 0..n
    BY <1>1
  <2>2. d[i] = q \o b /\ q \in Seq(Pieces) /\ b \in Seq(Pieces) /\ Len(q) \in Nat /\ Len(b) \in Nat
    BY <1>3, <1>4, <1>5, <1>6, <2>1, LenProperties DEF Flattens
  <2> HIDE DEF b, q
  <2>3. /\ Len(d[i]) = Len(q) + Len(b)
        /\ \A k \in 1..(Len(q) + Len(b)) : d[i][k] = IF k <= Len(q) THEN q[k] ELSE b[k - Len(q)]
    BY <2>2, ConcatProperties
  <2>4. ASSUME NEW k \in 1..Len(b) PROVE At(data, Len(q) + k) = b[k]
    <3>1. Len(q) + k \in 1..(Len(q) + Len(b)) /\ ~(Len(q) + k <= Len(q)) /\ (Len(q) + k) - Len(q) = k
      BY <2>2
    <3>2. d[i][Len(q) + k] = b[k]
      BY <2>3, <3>1
    <3>3. Len(q) + k \in 1..Len(d[i])
      BY <2>3, <3>1
    <3>4. Len(q) + k \in 1..Len(d[n])
      BY <1>6, <2>1, <3>3
    <3>5. data[Len(q) + k] = b[k]
      BY <1>6, <1>8, <2>1, <3>2, <3>3
    <3> QED
      BY <1>8, <3>4, <3>5 DEF At
  <2> QED
    BY <2>3, <2>4 DEF b, q
<1>10. Lays(d, wanted)
  <2>1. d[0] = <<>>
    BY <1>5 DEF Flattens
  <2>2. ASSUME NEW i \in 1..n, wanted[i] \in Natives PROVE Len(d[i]) = Len(d[i - 1])
    <3>1. i - 1 \in 0..n
      BY <1>1
    <3>2. Len(Block(wanted[i])) = 0
      BY <1>3, <2>2
    <3>3. Len(d[i - 1]) \in Nat /\ Len(d[i]) = Len(d[i - 1]) + 0
      BY <1>6, <1>9, <3>1, <3>2
    <3> QED
      BY <3>3
  <2>3. ASSUME NEW i \in 1..n, wanted[i] \notin Natives
        PROVE  /\ Len(d[i]) = Len(d[i - 1]) + 3
               /\ \A k \in 1..3 : At(data, Len(d[i - 1]) + k) = Answers(wanted[i])[k]
    <3>1. Len(Block(wanted[i])) = 3 /\ Block(wanted[i]) = Answers(wanted[i])
      BY <1>3, <2>3 DEF Block
    <3> QED
      BY <1>9, <3>1
  <2> QED
    BY <1>6, <1>8, <2>1, <2>2, <2>3 DEF Lays, n, data
<1> QED
  BY <1>8, <1>10 DEF data

\* The tokens that can be made of the data, and the states of the loop.
Read(data) == {data[i] : i \in DOMAIN data} \cup {Missing}
MadeOf(data) == {Metadata(x, y, z) : x \in Read(data), y \in Read(data), z \in Read(data)} \cup {Native}
LoopStates(data) == [j : Nat, tokens : Seq(MadeOf(data)), threw : BOOLEAN]
Start == [j |-> 1, tokens |-> <<>>, threw |-> FALSE]

LEMMA ReadNextTyped ==
    ASSUME NEW data, NEW read \in LoopStates(data), NEW a
    PROVE  ReadNext(data, read, a) \in LoopStates(data)
<1> DEFINE j == read.j + 1 + Retried(At(data, read.j + 1), At(data, read.j + 2))
           token == Metadata(At(data, read.j), At(data, j), At(data, j + 1))
           S == MadeOf(data)
<1>1. read.j \in Nat /\ read.tokens \in Seq(S) /\ read.threw \in BOOLEAN
      /\ read = [j |-> read.j, tokens |-> read.tokens, threw |-> read.threw]
  BY DEF LoopStates
<1>2. \A i : At(data, i) \in Read(data)
  BY DEF At, Read
<1>3. token \in S /\ Native \in S
  BY <1>2 DEF MadeOf
<1>4. j \in Nat
  BY <1>1 DEF Retried
<1> HIDE DEF j, token, S
<1>5. Append(read.tokens, token) \in Seq(S) /\ Append(read.tokens, Native) \in Seq(S)
  BY <1>1, <1>3, AppendProperties
<1>6. CASE a \in Natives
  <2>1. ReadNext(data, read, a) = [j |-> read.j, tokens |-> Append(read.tokens, Native), threw |-> read.threw]
    BY <1>1, <1>6 DEF ReadNext
  <2> QED
    BY <1>1, <1>5, <2>1 DEF LoopStates, S
<1>7. CASE a \notin Natives
  <2>1. PICK threw : ReadNext(data, read, a)
                      = [j |-> j + 2, tokens |-> Append(read.tokens, token), threw |-> read.threw \/ threw]
    BY <1>7 DEF ReadNext, j, token
  <2> QED
    BY <1>1, <1>4, <1>5, <2>1 DEF LoopStates, S
<1> QED
  BY <1>6, <1>7

Loop(data, wanted) == FoldLeft(LAMBDA x, a : ReadNext(data, x, a), Start, wanted)

\* The loop of getTokens, address by address.
Reads(r, data, wanted) ==
    /\ r \in [0..Len(wanted) -> LoopStates(data)] /\ r[0] = Start
    /\ \A i \in 1..Len(wanted) : r[i] = ReadNext(data, r[i - 1], wanted[i])

LEMMA LoopRuns ==
    ASSUME NEW wanted \in Seq(Addresses), NEW data
    PROVE  \E r : Reads(r, data, wanted) /\ Loop(data, wanted) = r[Len(wanted)]
<1> DEFINE n == Len(wanted)
           X == LoopStates(data)
           Rec(F) == F = [T \in SUBSET DOMAIN wanted |->
                            IF T = {} THEN Start ELSE ReadNext(data, F[T \ {Max(T)}], wanted[Max(T)])]
           F == CHOOSE F : Rec(F)
           step == [p \in X \X Addresses |-> ReadNext(data, p[1], p[2])]
           r == [i \in 0..n |-> F[1..i]]
<1>1. n \in Nat /\ DOMAIN wanted = 1..n /\ wanted \in [1..n -> Addresses]
  BY LenProperties
<1>2. Loop(data, wanted) = F[1..n]
  BY <1>1 DEF Loop, FoldLeft, MapThenFoldSet
<1>3. Start \in X /\ step \in [X \X Addresses -> X]
  <2>1. \A x \in X : \A a : ReadNext(data, x, a) \in X
    BY ReadNextTyped
  <2>2. Start \in X
    BY EmptySeq DEF Start, LoopStates
  <2> HIDE DEF X
  <2> QED
    BY <2>1, <2>2
<1> HIDE DEF n, X
<1>4. PICK G : FoldsSeq(G, X, Start, n, wanted, step)
  <2> HIDE DEF step
  <2> QED
    BY <1>1, <1>3, SeqFoldExists
<1>5. Rec(G)
  <2>1. ASSUME NEW T \in SUBSET (1..n), T # {}
        PROVE  G[T] = ReadNext(data, G[T \ {Max(T)}], wanted[Max(T)])
    <3>1. Max(T) \in 1..n
      BY <1>1, <2>1, LastPosition
    <3>2. wanted[Max(T)] \in Addresses /\ G[T \ {Max(T)}] \in X
      BY <1>1, <1>4, <3>1 DEF FoldsSeq
    <3>3. G[T] = step[<<G[T \ {Max(T)}], wanted[Max(T)]>>]
      BY <1>4, <2>1 DEF FoldsSeq
    <3> QED
      BY <3>2, <3>3
  <2>2. G \in [SUBSET (1..n) -> X] /\ G[{}] = Start
    BY <1>4 DEF FoldsSeq
  <2> QED
    BY <1>1, <2>1, <2>2
<1>6. Rec(F)
  BY <1>5
<1> HIDE DEF F
<1>7. r[0] = Start
  <2>1. 1..0 = {} /\ 0 \in 0..n
    BY <1>1
  <2> QED
    BY <1>1, <1>6, <2>1
<1>8. ASSUME NEW i \in 1..n PROVE r[i] = ReadNext(data, r[i - 1], wanted[i])
  <2>1. i \in 0..n /\ i - 1 \in 0..n /\ i \in 1..i /\ 1..i \in SUBSET (1..n)
    BY <1>1
  <2>2. Max(1..i) = i /\ (1..i) \ {i} = 1..(i - 1)
    BY <1>1, LastPosition
  <2>3. F[1..i] = ReadNext(data, F[1..(i - 1)], wanted[i])
    BY <1>1, <1>6, <2>1, <2>2
  <2> QED
    BY <2>1, <2>3
<1>9. r[n] = F[1..n] /\ r = [i \in 0..n |-> r[i]]
  <2>1. n \in 0..n
    BY <1>1
  <2> QED
    BY <2>1
<1> HIDE DEF r
<1>10. r \in [0..n -> X]
  <2> DEFINE P == {i \in 0..n : r[i] \in X}
  <2>1. 0 \in P
    BY <1>1, <1>3, <1>7
  <2>2. ASSUME NEW i \in 1..n, i - 1 \in P PROVE i \in P
    <3>1. ReadNext(data, r[i - 1], wanted[i]) \in X
      BY <2>2, ReadNextTyped DEF X
    <3> QED
      BY <1>1, <1>8, <3>1
  <2> HIDE DEF P
  <2>3. \A i \in 0..n : i \in P
    BY <1>1, <2>1, <2>2, UpTo
  <2> QED
    BY <1>9, <2>3 DEF P
<1>11. Reads(r, data, wanted)
  BY <1>7, <1>8, <1>10 DEF Reads, n, X
<1> QED
  BY <1>2, <1>9, <1>11 DEF n

\* The address of a contract whose metadata getTokens cannot read.
Unreadable(a) == a \notin Natives /\ (GetToken(a) = Throws \/ Mixed(a))

\* After i addresses the index is where their answers end and the tokens are right, or one
\* of them was unreadable; and an index beyond has run out of data when the answers end.
InStep(read, d, wanted, i) ==
    LET end == Len(d[i]) + 1
    IN  /\ Len(read.tokens) = i
        /\ end <= read.j
        /\ read.j = end /\ ~read.threw => \A k \in 1..i : read.tokens[k] = GetToken(wanted[k])
        /\ read.j # end \/ read.threw => \E k \in 1..i : Unreadable(wanted[k])
        /\ read.j # end /\ Len(d[i]) = Len(d[Len(wanted)]) => read.threw

\* What the loop does with the address of a contract.
LEMMA ContractRead ==
    ASSUME NEW data, NEW read \in LoopStates(data), NEW a, a \notin Natives
    PROVE  LET retried == Retried(At(data, read.j + 1), At(data, read.j + 2))
               strings == IsString(At(data, read.j + 1)) /\ IsString(At(data, read.j + 2))
               symbol == At(data, read.j + 1 + retried)
               name == At(data, read.j + 2 + retried)
               next == ReadNext(data, read, a)
           IN  /\ retried \in {0, 1}
               /\ next.j = read.j + 3 + retried
               /\ next.tokens = Append(read.tokens, Metadata(At(data, read.j), symbol, name))
               /\ next.threw = (\/ read.threw
                                \/ At(data, read.j).kind = "missing"
                                \/ ~strings /\ ~(IsBytes32(symbol) /\ IsBytes32(name)))
<1> DEFINE retried == Retried(At(data, read.j + 1), At(data, read.j + 2))
           j == read.j + 1 + retried
<1>1. read.j \in Nat /\ retried \in {0, 1}
  BY DEF LoopStates, Retried
<1>2. j + 1 = read.j + 2 + retried /\ j + 2 = read.j + 3 + retried
  BY <1>1
<1> QED
  BY <1>1, <1>2 DEF ReadNext, Metadata

\* Nothing lies beyond the data.
LEMMA Beyond ==
    ASSUME NEW data, NEW N \in Nat, DOMAIN data = 1..N, NEW i \in Nat, i > N
    PROVE  /\ At(data, i).kind = "missing"
           /\ ~IsString(At(data, i)) /\ ~IsBytes32(At(data, i))
<1>1. i \notin 1..N
  OBVIOUS
<1> QED
  BY <1>1 DEF At, Missing, Decoded, IsString, IsBytes32

LEMMA StepInStep ==
    ASSUME NEW wanted \in Seq(Addresses), NEW d, Lays(d, wanted),
           NEW i \in 1..Len(wanted), NEW read \in LoopStates(ReturnData(wanted)),
           InStep(read, d, wanted, i - 1)
    PROVE  InStep(ReadNext(ReturnData(wanted), read, wanted[i]), d, wanted, i)
<1> DEFINE data == ReturnData(wanted)
           a == wanted[i]
           before == Len(d[i - 1])
           after == Len(d[i])
           all == Len(d[Len(wanted)])
           next == ReadNext(data, read, a)
<1>1. /\ Len(wanted) \in Nat /\ a \in Addresses /\ i - 1 \in 0..Len(wanted) /\ i \in 0..Len(wanted)
      /\ Len(wanted) \in 0..Len(wanted)
  BY LenProperties, ElementOfSeq
<1>2. before \in Nat /\ after \in Nat /\ all \in Nat /\ before <= all /\ after <= all
  BY <1>1 DEF Lays
<1>3. /\ read.j \in Nat /\ read.threw \in BOOLEAN /\ read.tokens \in Seq(MadeOf(data))
      /\ Len(read.tokens) = i - 1 /\ before + 1 <= read.j
      /\ read.j = before + 1 /\ ~read.threw => \A k \in 1..(i - 1) : read.tokens[k] = GetToken(wanted[k])
      /\ read.j # before + 1 \/ read.threw => \E k \in 1..(i - 1) : Unreadable(wanted[k])
      /\ read.j # before + 1 /\ before = all => read.threw
  BY DEF InStep, LoopStates
<1>4. \A k \in 1..i : k \in 1..(i - 1) \/ k = i
  BY <1>1
<1>5. 1..(i - 1) \subseteq 1..i /\ i \in 1..i
  BY <1>1
<1>6. \A t \in MadeOf(data) :
        /\ Len(Append(read.tokens, t)) = i /\ Append(read.tokens, t)[i] = t
        /\ \A k \in 1..(i - 1) : Append(read.tokens, t)[k] = read.tokens[k]
  <2> SUFFICES ASSUME NEW t \in MadeOf(data)
               PROVE  /\ Len(Append(read.tokens, t)) = i /\ Append(read.tokens, t)[i] = t
                      /\ \A k \in 1..(i - 1) : Append(read.tokens, t)[k] = read.tokens[k]
    OBVIOUS
  <2>1. (i - 1) + 1 = i
    BY <1>1
  <2> QED
    BY <1>3, <2>1, AppendProperties
<1>7. CASE a \in Natives
  <2>1. next.j = read.j /\ next.tokens = Append(read.tokens, Native) /\ next.threw = read.threw
    BY <1>7 DEF ReadNext, LoopStates
  <2>2. after = before
    BY <1>7 DEF Lays
  <2>3. Native \in MadeOf(data)
    BY DEF MadeOf
  <2>4. GetToken(a) = Native
    BY <1>7 DEF GetToken
  <2> HIDE DEF next, data, before, after, all
  <2>5. \A k \in 1..(i - 1) : next.tokens[k] = read.tokens[k]
    BY <1>6, <2>1, <2>3
  <2>6. Len(next.tokens) = i /\ next.tokens[i] = GetToken(a)
    BY <1>6, <2>1, <2>3, <2>4
  <2>7. next.j = after + 1 /\ ~next.threw => \A k \in 1..i : next.tokens[k] = GetToken(wanted[k])
    BY <1>3, <1>4, <2>1, <2>2, <2>5, <2>6
  <2>8. next.j # after + 1 \/ next.threw => \E k \in 1..i : Unreadable(wanted[k])
    BY <1>3, <1>5, <2>1, <2>2
  <2> QED
    BY <1>3, <2>1, <2>2, <2>6, <2>7, <2>8 DEF InStep, next, data, after, before, all
<1>8. CASE a \notin Natives
  <2> DEFINE retried == Retried(At(data, read.j + 1), At(data, read.j + 2))
             strings == IsString(At(data, read.j + 1)) /\ IsString(At(data, read.j + 2))
             symbol == At(data, read.j + 1 + retried)
             name == At(data, read.j + 2 + retried)
             token == Metadata(At(data, read.j), symbol, name)
  <2>1. /\ retried \in {0, 1}
        /\ next.j = read.j + 3 + retried
        /\ next.tokens = Append(read.tokens, token)
        /\ next.threw = (\/ read.threw
                         \/ At(data, read.j).kind = "missing"
                         \/ ~strings /\ ~(IsBytes32(symbol) /\ IsBytes32(name)))
    BY <1>8, ContractRead
  <2>2. after = before + 3
    BY <1>8 DEF Lays
  <2>3. token \in MadeOf(data)
    <3>1. \A k : At(data, k) \in Read(data)
      BY DEF At, Read
    <3> QED
      BY <3>1 DEF MadeOf
  <2>4. DOMAIN data = 1..all
    <3>1. data \in Seq(Pieces) /\ data = d[Len(wanted)]
      BY DataLaid DEF Lays
    <3> QED
      BY <3>1, LenProperties
  <2>5. retried = 1 => IsString(At(data, read.j + 1)) /\ ~IsString(At(data, read.j + 2))
    BY DEF Retried
  <2> HIDE DEF next
  \* When the data end before the name there is no reading it.
  <2>6. ASSUME read.j + 2 + retried > all PROVE next.threw
    <3>1. read.j + 2 + retried \in Nat
      BY <1>3, <2>1
    <3>2. ~IsString(name) /\ ~IsBytes32(name)
      BY <1>2, <2>4, <2>6, <3>1, Beyond
    <3>3. ~strings
      <4>1. CASE retried = 1
        BY <2>5, <4>1
      <4>2. CASE retried # 1
        <5>1. retried = 0
          BY <2>1, <4>2
        <5>2. name = At(data, read.j + 2)
          BY <1>3, <5>1
        <5> QED
          BY <3>2, <5>2
      <4> QED
        BY <4>1, <4>2
    <3> QED
      BY <2>1, <3>2, <3>3
  <2>7. next.threw \in BOOLEAN /\ (read.threw => next.threw)
    BY <1>3, <2>1
  <2> HIDE DEF data, before, after, all, token
  <2>8. \A k \in 1..(i - 1) : next.tokens[k] = read.tokens[k]
    BY <1>6, <2>1, <2>3
  <2>9. Len(next.tokens) = i /\ next.tokens[i] = token
    BY <1>6, <2>1, <2>3
  <2>10. after + 1 <= next.j
    <3> HIDE DEF retried
    <3> QED
      BY <1>2, <1>3, <2>1, <2>2
  <2>11. next.j # after + 1 /\ after = all => next.threw
    <3> HIDE DEF retried
    <3>1. next.j # after + 1 => read.j + 2 + retried > after
      BY <1>2, <1>3, <2>1, <2>2
    <3> QED
      BY <2>6, <3>1
  <2>12. CASE read.j # before + 1
    <3>1. \E k \in 1..i : Unreadable(wanted[k])
      BY <1>3, <1>5, <2>12
    <3>2. next.j # after + 1
      <4> HIDE DEF retried
      <4> QED
        BY <1>2, <1>3, <2>1, <2>2, <2>12
    <3> QED
      BY <2>9, <2>10, <2>11, <3>1, <3>2 DEF InStep, next, data, after, all
  \* The index is where the answers of this contract begin.
  <2>13. CASE read.j = before + 1
    <3> DEFINE m == MetadataOf[a]
    <3>1. /\ At(data, read.j) = Decoded(a, "decimals", m.decimals)
          /\ At(data, read.j + 1) = Decoded(a, "symbol", m.symbol)
          /\ At(data, read.j + 2) = Decoded(a, "name", m.name)
      <4>1. /\ At(data, before + 1) = Answers(a)[1]
            /\ At(data, before + 2) = Answers(a)[2]
            /\ At(data, before + 3) = Answers(a)[3]
        BY <1>8 DEF Lays, data, before
      <4>2. read.j + 1 = before + 2 /\ read.j + 2 = before + 3
        BY <1>2, <2>13
      <4> QED
        BY <1>1, <1>8, <2>13, <4>1, <4>2, AnswersTyped
    <3>2. m \in [decimals : {"word", "zero"}, symbol : {"string", "bytes32", "zero"},
                  name : {"string", "bytes32", "zero"}]
      BY <1>1, <1>8, MetadataAssumption
    <3> DEFINE D == Decoded(a, "decimals", m.decimals)
               S == Decoded(a, "symbol", m.symbol)
               N == Decoded(a, "name", m.name)
    <3>3. D.kind # "missing" /\ S.kind = m.symbol /\ N.kind = m.name
      BY <3>2 DEF Decoded
    <3>4. GetToken(a) = IF (IsString(S) /\ IsString(N)) \/ (IsBytes32(S) /\ IsBytes32(N))
                        THEN Metadata(D, S, N) ELSE Throws
      BY <1>1, <1>8, AnswersTyped DEF GetToken
    <3>5. CASE retried = 1
      <4>1. IsString(S) /\ ~IsString(N)
        BY <2>5, <3>1, <3>5
      <4>2. Unreadable(a)
        <5>1. m.name = "bytes32" /\ m.symbol \in {"string", "zero"}
          BY <3>2, <3>3, <4>1 DEF IsString
        <5>2. CASE m.symbol = "zero"
          BY <1>8, <5>1, <5>2 DEF Unreadable, Mixed
        <5>3. CASE m.symbol = "string"
          <6>1. ~IsBytes32(S)
            BY <3>3, <5>3 DEF IsBytes32
          <6> QED
            BY <1>8, <3>4, <4>1, <6>1 DEF Unreadable
        <5> QED
          BY <5>1, <5>2, <5>3
      <4>3. next.j # after + 1
        <5> HIDE DEF retried
        <5> QED
          BY <1>2, <2>1, <2>2, <2>13, <3>5
      <4>4. \E k \in 1..i : Unreadable(wanted[k])
        BY <1>5, <4>2
      <4> QED
        BY <2>9, <2>10, <2>11, <4>3, <4>4 DEF InStep, next, data, after, all
    <3>6. CASE retried = 0
      <4>1. symbol = S /\ name = N /\ token = Metadata(D, S, N)
        <5>1. read.j + 1 + retried = read.j + 1 /\ read.j + 2 + retried = read.j + 2
          BY <1>3, <3>6
        <5> QED
          BY <3>1, <5>1 DEF token
      <4>2. next.threw = (read.threw \/ (~(IsString(S) /\ IsString(N)) /\ ~(IsBytes32(S) /\ IsBytes32(N))))
        <5> HIDE DEF retried, D, S, N
        <5> QED
          BY <2>1, <3>1, <3>3, <4>1 DEF D, S, N
      <4>3. next.j = after + 1
        <5> HIDE DEF retried
        <5> QED
          BY <1>2, <2>1, <2>2, <2>13, <3>6
      <4> HIDE DEF D, S, N
      <4>4. next.threw => \E k \in 1..i : Unreadable(wanted[k])
        <5>1. CASE read.threw
          BY <1>3, <1>5, <5>1
        <5>2. CASE ~(IsString(S) /\ IsString(N)) /\ ~(IsBytes32(S) /\ IsBytes32(N))
          <6>1. Unreadable(a)
            BY <1>8, <3>4, <5>2 DEF Unreadable
          <6> QED
            BY <1>5, <6>1
        <5> QED
          BY <4>2, <5>1, <5>2
      <4>5. ~next.threw => \A k \in 1..i : next.tokens[k] = GetToken(wanted[k])
        <5> SUFFICES ASSUME ~next.threw PROVE \A k \in 1..i : next.tokens[k] = GetToken(wanted[k])
          OBVIOUS
        <5>1. GetToken(a) = token
          BY <3>4, <4>1, <4>2
        <5>2. \A k \in 1..(i - 1) : next.tokens[k] = GetToken(wanted[k])
          BY <1>3, <2>7, <2>8, <2>13
        <5> QED
          BY <1>4, <2>9, <5>1, <5>2
      <4> QED
        BY <2>9, <2>10, <4>3, <4>4, <4>5 DEF InStep, next, data, after
    <3> QED
      BY <2>1, <3>5, <3>6
  <2> QED
    BY <2>12, <2>13
<1> QED
  BY <1>7, <1>8

\* What getTokens answers is right, and it throws for an unreadable contract only.
AsRead(read, wanted) ==
    /\ read.threw \in BOOLEAN
    /\ ~read.threw => read.tokens = [i \in DOMAIN wanted |-> GetToken(wanted[i])]
    /\ read.threw => \E i \in DOMAIN wanted : Unreadable(wanted[i])

LEMMA LoopReads ==
    ASSUME NEW wanted \in Seq(Addresses)
    PROVE  AsRead(Loop(ReturnData(wanted), wanted), wanted)
<1> DEFINE n == Len(wanted)
           data == ReturnData(wanted)
<1>1. n \in Nat /\ DOMAIN wanted = 1..n
  BY LenProperties
<1>2. PICK d : Lays(d, wanted)
  BY DataLaid
<1>3. PICK r : Reads(r, data, wanted) /\ Loop(data, wanted) = r[n]
  BY LoopRuns
<1>4. InStep(r[0], d, wanted, 0)
  <2>1. r[0] = Start /\ d[0] = <<>>
    BY <1>2, <1>3 DEF Reads, Lays
  <2>2. Len(<<>>) = 0 /\ Start.j = 1 /\ Start.tokens = <<>> /\ Start.threw = FALSE
    BY EmptySeq DEF Start
  <2> QED
    BY <2>1, <2>2 DEF InStep
<1>5. ASSUME NEW i \in 1..n, InStep(r[i - 1], d, wanted, i - 1) PROVE InStep(r[i], d, wanted, i)
  <2>1. i - 1 \in 0..n
    BY <1>1
  <2>2. r[i - 1] \in LoopStates(data) /\ r[i] = ReadNext(data, r[i - 1], wanted[i])
    BY <1>3, <2>1 DEF Reads
  <2> QED
    BY <1>2, <1>5, <2>2, StepInStep
<1>6. InStep(r[n], d, wanted, n)
  <2> DEFINE P == {i \in 0..n : InStep(r[i], d, wanted, i)}
  <2>1. 0 \in P
    BY <1>1, <1>4
  <2>2. ASSUME NEW i \in 1..n, i - 1 \in P PROVE i \in P
    BY <1>1, <1>5, <2>2
  <2>3. n \in 0..n
    BY <1>1
  <2> HIDE DEF P, n
  <2>4. \A i \in 0..n : i \in P
    BY <1>1, <2>1, <2>2, UpTo
  <2> QED
    BY <2>3, <2>4 DEF P
<1>7. r[n] \in LoopStates(data)
  <2>1. n \in 0..n
    BY <1>1
  <2> QED
    BY <1>3, <2>1 DEF Reads
<1>8. r[n].threw \in BOOLEAN /\ r[n].tokens \in Seq(MadeOf(data)) /\ Len(r[n].tokens) = n
  BY <1>6, <1>7 DEF LoopStates, InStep
<1>9. r[n].j # Len(d[n]) + 1 => r[n].threw
  BY <1>6 DEF InStep
<1>10. ~r[n].threw => r[n].tokens = [i \in DOMAIN wanted |-> GetToken(wanted[i])]
  <2>1. r[n].tokens = [i \in 1..n |-> r[n].tokens[i]]
    BY <1>8, LenProperties
  <2>2. ~r[n].threw => \A k \in 1..n : r[n].tokens[k] = GetToken(wanted[k])
    BY <1>6, <1>9 DEF InStep
  <2> HIDE DEF n
  <2> QED
    BY <1>1, <2>1, <2>2
<1>11. r[n].threw => \E i \in DOMAIN wanted : Unreadable(wanted[i])
  BY <1>1, <1>6 DEF InStep
<1>12. AsRead(r[n], wanted)
  BY <1>8, <1>10, <1>11 DEF AsRead
<1> QED
  BY <1>3, <1>12

-----------------------------------------------------------------------------
(* The calls for tokens.                                                   *)

\* A list as it is cached: the repository's own tokens are in it, as they are.
IsList(map) ==
    /\ DOMAIN map \subseteq Addresses
    /\ \A a \in DOMAIN map : map[a] \in {"custom", "external"}
    /\ \A a \in Custom : a \in DOMAIN map /\ map[a] = "custom"

CallFields(s) == {"pc", "shape", "settled", "fetched", "from", "tokens"} \subseteq DOMAIN s

CallOK(s) ==
    /\ CallFields(s)
    /\ s.pc \in {"idle", "fetch", "unified", "read", "threw", "reverted"}
    /\ s.pc = "unified" => s.tokens = ReplaceTokens(s.shape, s.from) /\ IsList(s.from)
    /\ s.pc = "read" => s.tokens = [i \in DOMAIN s.shape |-> GetToken(s.shape[i])]
    /\ s.pc = "threw" => \E i \in DOMAIN s.shape : Unreadable(s.shape[i])

LInv ==
    /\ unifiedTokenMapCache = Undefined \/ IsList(unifiedTokenMapCache)
    /\ tokenCalls = [c \in TokenCalls |-> tokenCalls[c]]
    /\ \A c \in TokenCalls : CallOK(tokenCalls[c])

\* A call becomes s, the list what it was or a new one.
LEMMA OneCall ==
    ASSUME LInv, NEW c \in TokenCalls, NEW s, CallOK(s), tokenCalls' = [tokenCalls EXCEPT ![c] = s],
           unifiedTokenMapCache' = unifiedTokenMapCache \/ IsList(unifiedTokenMapCache')
    PROVE  LInv'
<1>1. tokenCalls'[c] = s /\ \A d \in TokenCalls \ {c} : tokenCalls'[d] = tokenCalls[d]
  BY DEF LInv
<1>2. tokenCalls' = [d \in TokenCalls |-> tokenCalls'[d]]
  BY DEF LInv
<1> QED
  BY <1>1, <1>2 DEF LInv

LEMMA AnsweredOK ==
    ASSUME NEW call, CallFields(call), NEW map, IsList(map)
    PROVE  CallOK(Answered(call, map))
<1> DEFINE tokens == ReplaceTokens(call.shape, map)
           s == [call EXCEPT !.pc = "unified", !.from = map, !.tokens = tokens]
<1>1. Answered(call, map) = s
  BY DEF Answered
<1> HIDE DEF tokens
<1>2. CallFields(s) /\ s.pc = "unified" /\ s.from = map /\ s.tokens = tokens /\ s.shape = call.shape
  BY DEF CallFields
<1> HIDE DEF s
<1> QED
  BY <1>1, <1>2 DEF CallOK, tokens

LEMMA NewCallFields == CallFields(NewTokenCall) /\ NewTokenCall.pc = "idle"
  BY DEF NewTokenCall, CallFields

LEMMA NextLInv == LInv /\ [TokensNext]_tokensVars => LInv'
<1> SUFFICES ASSUME LInv, [TokensNext]_tokensVars PROVE LInv'
  OBVIOUS
<1>1. CASE UNCHANGED tokensVars
  BY <1>1 DEF tokensVars, LInv
<1>2. ASSUME NEW c \in TokenCalls, NEW shape, UnifyTokens(c, shape) PROVE LInv'
  <2> DEFINE quiet == unifiedTokenMapCache # Undefined /\ \A d \in TokenCalls : ~Fetching(d)
             call == [NewTokenCall EXCEPT !.pc = "fetch", !.shape = shape, !.settled = quiet]
             s == IF unifiedTokenMapCache # Undefined THEN Answered(call, unifiedTokenMapCache) ELSE call
  <2>1. tokenCalls' = [tokenCalls EXCEPT ![c] = s] /\ unifiedTokenMapCache' = unifiedTokenMapCache
    BY <1>2 DEF UnifyTokens
  <2> HIDE DEF quiet
  <2>2. CallFields(call) /\ call.pc = "fetch"
    BY NewCallFields DEF CallFields
  <2> HIDE DEF call
  <2>3. CallOK(s)
    <3>1. CASE unifiedTokenMapCache # Undefined
      BY <2>2, <3>1, AnsweredOK DEF LInv
    <3>2. CASE unifiedTokenMapCache = Undefined
      BY <2>2, <3>2 DEF CallOK
    <3> QED
      BY <3>1, <3>2
  <2> HIDE DEF s
  <2> QED
    BY <2>1, <2>3, OneCall
<1>3. ASSUME NEW c \in TokenCalls, NEW external \in Fetched \cup {{}}, ReceiveTokens(c, external) PROVE LInv'
  <2> DEFINE call == [tokenCalls[c] EXCEPT !.fetched = {external}]
             s == Answered(call, Merge(external))
  <2>1. tokenCalls' = [tokenCalls EXCEPT ![c] = s] /\ unifiedTokenMapCache' = Merge(external)
    BY <1>3 DEF ReceiveTokens
  <2>2. IsList(Merge(external))
    BY AddressesAssumption DEF Merge, IsList
  <2>3. CallFields(call)
    BY DEF LInv, CallOK, CallFields
  <2> HIDE DEF call
  <2>4. CallOK(s)
    BY <2>2, <2>3, AnsweredOK
  <2> HIDE DEF s
  <2> QED
    BY <2>1, <2>2, <2>4, OneCall
<1>4. ASSUME NEW c \in TokenCalls, NEW wanted \in Wanted, GetTokens(c, wanted) PROVE LInv'
  <2> DEFINE read == Loop(ReturnData(wanted), wanted)
             s == [NewTokenCall EXCEPT !.pc = IF read.threw THEN "threw" ELSE "read",
                                       !.shape = wanted, !.tokens = IF read.threw THEN <<>> ELSE read.tokens]
  <2>1. tokenCalls' = [tokenCalls EXCEPT ![c] = s] /\ unifiedTokenMapCache' = unifiedTokenMapCache
    BY <1>4 DEF GetTokens, Loop, Start
  <2>2. AsRead(read, wanted)
    BY AddressesAssumption, LoopReads
  <2> HIDE DEF read
  <2>3. /\ CallFields(s) /\ s.shape = wanted
        /\ s.pc = IF read.threw THEN "threw" ELSE "read"
        /\ s.tokens = IF read.threw THEN <<>> ELSE read.tokens
    BY NewCallFields DEF CallFields
  <2> HIDE DEF s
  <2>4. CallOK(s)
    BY <2>2, <2>3 DEF CallOK, AsRead
  <2> QED
    BY <2>1, <2>4, OneCall
<1>5. ASSUME NEW c \in TokenCalls, GetTokensFails(c) PROVE LInv'
  <2> DEFINE s == [NewTokenCall EXCEPT !.pc = "reverted"]
  <2>1. tokenCalls' = [tokenCalls EXCEPT ![c] = s] /\ unifiedTokenMapCache' = unifiedTokenMapCache
    BY <1>5 DEF GetTokensFails
  <2>2. CallFields(s) /\ s.pc = "reverted"
    BY NewCallFields DEF CallFields
  <2> HIDE DEF s
  <2>3. CallOK(s)
    BY <2>2 DEF CallOK
  <2> QED
    BY <2>1, <2>3, OneCall
<1> QED
  BY <1>1, <1>2, <1>3, <1>4, <1>5 DEF TokensNext

LEMMA SpecLInv == FairSpec => []LInv
<1>1. Init => LInv
  <2> SUFFICES ASSUME TokensInit PROVE LInv
    BY DEF Init
  <2>1. CallOK(NewTokenCall)
    BY NewCallFields DEF CallOK
  <2> QED
    BY <2>1 DEF TokensInit, LInv
<1>2. LInv /\ [Next]_vars => LInv'
  BY NextLInv DEF Next, vars
<1> QED
  BY <1>1, <1>2, PTL DEF FairSpec

\* A list that some call of cs has fetched.
WasFetched(cs, map) == \E d \in TokenCalls : \E e \in cs[d].fetched : map = Merge(e)

\* What is cached, and what a call was answered with, some call has fetched; and a call
\* that has fetched was answered with that.
OInv ==
    /\ unifiedTokenMapCache # Undefined => WasFetched(tokenCalls, unifiedTokenMapCache)
    /\ \A c \in TokenCalls :
         /\ tokenCalls[c].pc \in {"idle", "fetch"} => tokenCalls[c].fetched = {}
         /\ tokenCalls[c].pc = "unified" => WasFetched(tokenCalls, tokenCalls[c].from)
         /\ \A e \in tokenCalls[c].fetched : tokenCalls[c].from = Merge(e)

\* A call that has fetched nothing yet becomes s; the list is what it was, or what s has
\* fetched.
LEMMA OneOrigin ==
    ASSUME LInv, OInv, NEW c \in TokenCalls, NEW s, tokenCalls' = [tokenCalls EXCEPT ![c] = s],
           tokenCalls[c].fetched = {},
           s.pc \in {"idle", "fetch"} => s.fetched = {},
           \A e \in s.fetched : s.from = Merge(e),
           s.pc = "unified" /\ s.fetched = {} =>
             unifiedTokenMapCache # Undefined /\ s.from = unifiedTokenMapCache,
           unifiedTokenMapCache' = unifiedTokenMapCache
             \/ \E e \in s.fetched : unifiedTokenMapCache' = Merge(e)
    PROVE  OInv'
<1>1. tokenCalls'[c] = s /\ \A d \in TokenCalls \ {c} : tokenCalls'[d] = tokenCalls[d]
  BY DEF LInv
<1>2. \A map : WasFetched(tokenCalls, map) => WasFetched(tokenCalls', map)
  BY <1>1 DEF WasFetched
<1>3. \A e \in s.fetched : WasFetched(tokenCalls', Merge(e))
  BY <1>1 DEF WasFetched
<1>4. unifiedTokenMapCache' # Undefined => WasFetched(tokenCalls', unifiedTokenMapCache')
  BY <1>2, <1>3 DEF OInv
<1>5. s.pc = "unified" => WasFetched(tokenCalls', s.from)
  BY <1>2, <1>3 DEF OInv
<1> QED
  BY <1>1, <1>2, <1>4, <1>5 DEF OInv

\* A new call has fetched nothing.
LEMMA NewCallOrigin == CallFields(NewTokenCall) /\ NewTokenCall.fetched = {}
  BY NewCallFields DEF NewTokenCall

\* An answer changes no more than the place and what is answered.
LEMMA AnsweredFields ==
    ASSUME NEW call, CallFields(call), NEW map
    PROVE  LET s == Answered(call, map)
           IN  s.pc = "unified" /\ s.from = map /\ s.fetched = call.fetched
  BY DEF Answered, CallFields

LEMMA NextOInv == LInv /\ OInv /\ [TokensNext]_tokensVars => OInv'
<1> SUFFICES ASSUME LInv, OInv, [TokensNext]_tokensVars PROVE OInv'
  OBVIOUS
<1>1. CASE UNCHANGED tokensVars
  BY <1>1 DEF tokensVars, OInv
<1>2. ASSUME NEW c \in TokenCalls, NEW shape, UnifyTokens(c, shape) PROVE OInv'
  <2> DEFINE quiet == unifiedTokenMapCache # Undefined /\ \A d \in TokenCalls : ~Fetching(d)
             call == [NewTokenCall EXCEPT !.pc = "fetch", !.shape = shape, !.settled = quiet]
             s == IF unifiedTokenMapCache # Undefined THEN Answered(call, unifiedTokenMapCache) ELSE call
  <2>1. /\ tokenCalls' = [tokenCalls EXCEPT ![c] = s] /\ unifiedTokenMapCache' = unifiedTokenMapCache
        /\ tokenCalls[c].pc = "idle"
    BY <1>2 DEF UnifyTokens
  <2> HIDE DEF quiet
  <2>2. CallFields(call) /\ call.pc = "fetch" /\ call.fetched = {}
    BY NewCallOrigin DEF CallFields
  <2> HIDE DEF call
  <2>3. /\ s.fetched = {}
        /\ s.pc = "unified" => unifiedTokenMapCache # Undefined /\ s.from = unifiedTokenMapCache
    BY <2>2, AnsweredFields
  <2> HIDE DEF s
  <2>4. tokenCalls[c].fetched = {}
    BY <2>1 DEF OInv
  <2> QED
    BY <2>1, <2>3, <2>4, OneOrigin
<1>3. ASSUME NEW c \in TokenCalls, NEW external, ReceiveTokens(c, external) PROVE OInv'
  <2> DEFINE call == [tokenCalls[c] EXCEPT !.fetched = {external}]
             s == Answered(call, Merge(external))
  <2>1. tokenCalls' = [tokenCalls EXCEPT ![c] = s] /\ unifiedTokenMapCache' = Merge(external)
    BY <1>3 DEF ReceiveTokens
  <2>2. CallFields(call) /\ call.fetched = {external}
    BY DEF LInv, CallOK, CallFields
  <2> HIDE DEF call
  <2>3. s.pc = "unified" /\ s.from = Merge(external) /\ s.fetched = {external}
    BY <2>2, AnsweredFields
  <2> HIDE DEF s
  <2>4. tokenCalls[c].fetched = {}
    BY <1>3 DEF OInv, ReceiveTokens, Fetching
  <2> QED
    BY <2>1, <2>3, <2>4, OneOrigin
<1>4. ASSUME NEW c \in TokenCalls, NEW wanted, GetTokens(c, wanted) \/ GetTokensFails(c) PROVE OInv'
  <2>1. tokenCalls[c].fetched = {} /\ unifiedTokenMapCache' = unifiedTokenMapCache
    BY <1>4 DEF OInv, GetTokens, GetTokensFails
  <2>2. PICK s : /\ tokenCalls' = [tokenCalls EXCEPT ![c] = s] /\ s.fetched = {}
                 /\ s.pc # "unified"
    <3>1. CASE GetTokens(c, wanted)
      <4>1. PICK read : tokenCalls' = [tokenCalls EXCEPT ![c] =
               [NewTokenCall EXCEPT !.pc = IF read.threw THEN "threw" ELSE "read",
                                    !.shape = wanted, !.tokens = IF read.threw THEN <<>> ELSE read.tokens]]
        BY <3>1 DEF GetTokens
      <4> DEFINE s == [NewTokenCall EXCEPT !.pc = IF read.threw THEN "threw" ELSE "read",
                            !.shape = wanted, !.tokens = IF read.threw THEN <<>> ELSE read.tokens]
      <4>2. s.fetched = {} /\ s.pc # "unified"
        BY DEF NewTokenCall
      <4>3. tokenCalls' = [tokenCalls EXCEPT ![c] = s]
        BY <4>1
      <4> HIDE DEF s
      <4> QED
        BY <4>2, <4>3
    <3>2. CASE GetTokensFails(c)
      <4> DEFINE s == [NewTokenCall EXCEPT !.pc = "reverted"]
      <4>1. s.fetched = {} /\ s.pc # "unified"
        BY NewCallOrigin DEF CallFields
      <4>2. tokenCalls' = [tokenCalls EXCEPT ![c] = s]
        BY <3>2 DEF GetTokensFails
      <4> HIDE DEF s
      <4> QED
        BY <4>1, <4>2
    <3> QED
      BY <1>4, <3>1, <3>2
  <2> QED
    BY <2>1, <2>2, OneOrigin
<1> QED
  BY <1>1, <1>2, <1>3, <1>4 DEF TokensNext

LEMMA SpecOInv == FairSpec => []OInv
<1>1. Init => OInv
  <2> SUFFICES ASSUME TokensInit PROVE OInv
    BY DEF Init
  <2>1. \A c \in TokenCalls : tokenCalls[c].fetched = {} /\ tokenCalls[c].pc = "idle"
    BY NewCallOrigin, NewCallFields DEF TokensInit
  <2> QED
    BY <2>1 DEF TokensInit, OInv
<1>2. LInv /\ OInv /\ [Next]_vars => OInv'
  BY NextOInv DEF Next, vars
<1> QED
  BY <1>1, <1>2, SpecLInv, PTL DEF FairSpec

\* A token replaced by a merged list has the source that list gives it.
LEMMA MergedSource ==
    ASSUME NEW a, NEW e
    PROVE  ReplaceToken(a, Merge(e)) = [address |-> a, source |-> Source(a, e)]
  BY DEF ReplaceToken, Merge, Source

LEMMA Prevailing == LInv /\ OInv => CustomPrevails
<1> SUFFICES ASSUME LInv, OInv, NEW c \in TokenCalls, tokenCalls[c].pc = "unified"
             PROVE  IF tokenCalls[c].shape[1] = <<>>
        THEN \A key \in DOMAIN tokenCalls[c].shape : \A i \in DOMAIN tokenCalls[c].shape[key] :
               tokenCalls[c].tokens[key][i] = [address |-> tokenCalls[c].shape[key][i],
                                               source |-> "given"]
        ELSE \E d \in TokenCalls : /\ tokenCalls[c].fetched # {} => d = c
                                   /\ \E external \in tokenCalls[d].fetched : ReplacedBy(c, external)
  BY DEF CustomPrevails
<1>1. tokenCalls[c].tokens = ReplaceTokens(tokenCalls[c].shape, tokenCalls[c].from)
  BY DEF LInv, CallOK
<1>2. CASE tokenCalls[c].shape[1] = <<>>
  BY <1>1, <1>2 DEF ReplaceTokens
<1>3. CASE tokenCalls[c].shape[1] # <<>>
  <2>1. ASSUME NEW e, tokenCalls[c].from = Merge(e) PROVE ReplacedBy(c, e)
    <3>1. ASSUME NEW key \in DOMAIN tokenCalls[c].shape, NEW i \in DOMAIN tokenCalls[c].shape[key]
          PROVE  tokenCalls[c].tokens[key][i]
                   = ReplaceToken(tokenCalls[c].shape[key][i], Merge(e))
      BY <1>1, <1>3, <2>1 DEF ReplaceTokens
    <3> QED
      BY <3>1, MergedSource DEF ReplacedBy
  <2>2. CASE tokenCalls[c].fetched # {}
    BY <1>3, <2>1, <2>2 DEF OInv
  <2>3. CASE tokenCalls[c].fetched = {}
    BY <1>3, <2>1, <2>3 DEF OInv, WasFetched
  <2> QED
    BY <2>2, <2>3
<1> QED
  BY <1>2, <1>3

LEMMA OneByOne == LInv => AsOneByOne
  BY DEF LInv, CallOK, AsOneByOne, Unreadable

LEMMA Typed == CInv /\ LInv => TypeOK
<1> SUFFICES ASSUME CInv, LInv PROVE TypeOK
  OBVIOUS
<1>1. Protocols \in Seq(ProtocolIds) /\ Len(Protocols) \in Nat /\ DOMAIN Protocols = 1..Len(Protocols)
      /\ Protocols \in [1..Len(Protocols) -> ProtocolIds] /\ IsInjective(Protocols)
  BY LenProperties DEF CInv
<1>2. Range(Protocols) \subseteq ProtocolIds
  BY <1>1 DEF Range
<1>3. Len(Protocols) <= Cardinality(ProtocolIds)
  <2> DEFINE S == 1..Len(Protocols)
  <2>1. Protocols \in Injection(S, ProtocolIds)
    BY <1>1 DEF Injection
  <2>2. Cardinality(S) = Len(Protocols)
    BY <1>1, FS_Interval
  <2> HIDE DEF S
  <2>3. Cardinality(S) <= Cardinality(ProtocolIds)
    BY <2>1, FS_Injection, RegisteredAssumption
  <2> QED
    BY <2>2, <2>3
<1>4. \A a \in Adapters :
        /\ adapters[a].pc \in {"idle", "created", "cdn", "chain", "ready", "rejected"}
        /\ adapters[a].creating \in 0..Len(Protocols)
        /\ DOMAIN adapters[a].protocolMap \subseteq Supported
  BY DEF CInv, AdapterOK, Configured
<1>5. /\ DOMAIN unifiedTokenMapCache \subseteq Addresses
      /\ Range(unifiedTokenMapCache) \subseteq {"custom", "external"}
  <2>1. DOMAIN <<>> = {}
    OBVIOUS
  <2> QED
    BY <2>1 DEF LInv, IsList, Undefined, Range
<1> QED
  BY <1>2, <1>3, <1>4, <1>5 DEF TypeOK, LInv, CallOK

\* Every variable keeps its type; the registered protocols are never more than there are.
THEOREM TypeCorrect == FairSpec => []TypeOK
  BY SpecCInv, SpecLInv, Typed, PTL

\* Whatever the external lists have, and however calls overlap or fail, every list of
\* tokens handed out is replaced, token by token, by one of them, and the repository's own
\* data prevails over it (CustomPrevails).
THEOREM CustomAlwaysPrevails == FairSpec => []CustomPrevails
  BY SpecLInv, SpecOInv, Prevailing, PTL

\* For every list of addresses, of any length and order, getTokens answers what getToken
\* answers for each, and throws only when one of the contracts cannot be read.
THEOREM AlwaysAsOneByOne == FairSpec => []AsOneByOne
  BY SpecLInv, OneByOne, PTL
=============================================================================
