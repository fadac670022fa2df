------------------------------- MODULE Tokens -------------------------------
(***************************************************************************)
(* Lists of tokens.  unifyTokens replaces tokens by those of one list,     *)
(* fetched once per chain and cached, in which the repository's own data   *)
(* prevails over the fetched one; calls that overlap fetch it each.        *)
(* getTokens reads the symbols, names and decimals of many contracts in    *)
(* one multicall and takes the answers apart by a running index.  A token  *)
(* is modelled by its address and by where its data comes from.            *)
(***************************************************************************)
EXTENDS Integers, Sequences, FiniteSets, SequencesExt

CONSTANTS
    TokenCalls,
    Addresses,
    Custom,      \* the addresses in the data of the repository
    Fetched,     \* the sets of addresses the external list may have
    Shapes,      \* what unifyTokens is asked for: records of lists of addresses
    Natives,     \* the names of the native token: its address, ELASTIC_ADDRESS
    MetadataOf,  \* MetadataOf[a]: what the token contract a answers, see Answers
    Wanted       \* the lists of addresses getTokens is asked for

\* Every chain has tokens of its own: its native one.
ASSUME CustomAssumption == Custom # {}

ASSUME AddressesAssumption ==
    /\ Custom \subseteq Addresses
    /\ Fetched \subseteq SUBSET Addresses
    /\ Wanted \subseteq Seq(Addresses)

\* A contract that has the functions answers in one of these ways.
ASSUME MetadataAssumption ==
    \A a \in Addresses \ Natives :
        MetadataOf[a] \in [decimals : {"word", "zero"}, symbol : {"string", "bytes32", "zero"},
                          name : {"string", "bytes32", "zero"}]

VARIABLES
    unifiedTokenMapCache,  \* of the chain: Undefined, or where each address is from
    tokenCalls

tokensVars == <<unifiedTokenMapCache, tokenCalls>>

Undefined == <<>>

\* settled (history): the list was cached and no call was fetching it when this call was
\* made; fetched (history): the external list it fetched itself, if it did; from: the
\* list its answer was made with.
NewTokenCall ==
    [pc |-> "idle", shape |-> <<>>, settled |-> FALSE, fetched |-> {}, from |-> Undefined,
     tokens |-> <<>>]

TokensInit ==
    /\ unifiedTokenMapCache = Undefined
    /\ tokenCalls = [c \in TokenCalls |-> NewTokenCall]

-----------------------------------------------------------------------------
\* Mutant: the fetched tokens are left out.
Merge_CustomOnly(external) == [a \in Custom |-> "custom"]

\* { ...tokenMap, ...customTokenMap }
Merge(external) == [a \in Custom \cup external |-> IF a \in Custom THEN "custom" ELSE "external"]

ReplaceToken(a, map) == [address |-> a, source |-> IF a \in DOMAIN map THEN map[a] ELSE "given"]

\* replaceTokens of a record of lists: told by its first list, which may be empty, and
\* then nothing is replaced.
ReplaceTokens(shape, map) ==
    [key \in DOMAIN shape |-> [i \in DOMAIN shape[key] |->
        IF shape[1] # <<>> THEN ReplaceToken(shape[key][i], map)
                           ELSE [address |-> shape[key][i], source |-> "given"]]]

Answered(call, map) == [call EXCEPT !.pc = "unified", !.from = map, !.tokens = ReplaceTokens(call.shape, map)]

Fetching(c) == tokenCalls[c].pc = "fetch"

\* Mutant: the cache is written, never read.
UnifyTokens_Uncached(c, shape) ==
    /\ tokenCalls[c].pc = "idle"
    /\ tokenCalls' = [tokenCalls EXCEPT ![c] =
         [NewTokenCall EXCEPT !.pc = "fetch", !.shape = shape,
            !.settled = unifiedTokenMapCache # Undefined /\ \A d \in TokenCalls : ~Fetching(d)]]
    /\ UNCHANGED unifiedTokenMapCache

UnifyTokens(c, shape) ==
    /\ tokenCalls[c].pc = "idle"
    /\ LET call == [NewTokenCall EXCEPT !.pc = "fetch", !.shape = shape,
                      !.settled = unifiedTokenMapCache # Undefined /\ \A d \in TokenCalls : ~Fetching(d)]
       IN  tokenCalls' = [tokenCalls EXCEPT ![c] =
             IF unifiedTokenMapCache # Undefined THEN Answered(call, unifiedTokenMapCache) ELSE call]
    /\ UNCHANGED unifiedTokenMapCache

\* The external list is there, or could not be fetched and counts as empty; either way it
\* becomes the cached one, over what an overlapping call may have cached.
ReceiveTokens(c, external) ==
    /\ Fetching(c)
    /\ external \in Fetched \cup {{}}
    /\ unifiedTokenMapCache' = Merge(external)
    /\ tokenCalls' = [tokenCalls EXCEPT ![c] =
         Answered([tokenCalls[c] EXCEPT !.fetched = {external}], Merge(external))]

-----------------------------------------------------------------------------
(* getTokens.  A word of 32 bytes, or a string, is what a contract returns;  *)
(* "zero" is 32 zero bytes: the number 0, an empty bytes32 or, read at       *)
(* offset 0, an empty string.  A decoder that cannot read it throws.         *)

Decoded(token, field, kind) == [token |-> token, field |-> field, kind |-> kind]

\* The answers of the three calls to contract a.
Answers(a) ==
    LET m == MetadataOf[a]
    IN  <<Decoded(a, "decimals", m.decimals), Decoded(a, "symbol", m.symbol), Decoded(a, "name", m.name)>>

ReturnData(wanted) ==
    FlattenSeq([i \in DOMAIN wanted |-> IF wanted[i] \in Natives THEN <<>> ELSE Answers(wanted[i])])

IsString(d) == d.kind \in {"string", "zero"}
IsBytes32(d) == d.kind \in {"bytes32", "zero"}

\* The metadata read from three pieces of data.
Metadata(decimals, symbol, name) == [decimals |-> decimals, symbol |-> symbol, name |-> name]

\* What there is beyond the answers.
Missing == Decoded("none", "none", "missing")

Native == Metadata(Missing, Decoded("native", "symbol", "string"), Decoded("native", "name", "string"))

Throws == Metadata(Missing, Missing, Missing)

\* getToken of one address: as two strings, or else as two bytes32.
GetToken(a) ==
    LET d == Answers(a)
    IN  IF a \in Natives THEN Native
        ELSE IF (IsString(d[2]) /\ IsString(d[3])) \/ (IsBytes32(d[2]) /\ IsBytes32(d[3]))
             THEN Metadata(d[1], d[2], d[3])
        ELSE Throws

At(data, i) == IF i \in DOMAIN data THEN data[i] ELSE Missing

\* Mutant: after a failed string the index has moved on by one in any case.
Retried_Always(symbol, name) == IF IsString(symbol) /\ IsString(name) THEN 0 ELSE 1

\* How far the index has moved past the symbol when it is read once more as a bytes32:
\* by one when the symbol could be read as a string and only the name could not.
Retried(symbol, name) == IF IsString(symbol) /\ ~IsString(name) THEN 1 ELSE 0

\* The loop of getTokens takes one address: read is [j, tokens, threw].
ReadNext(data, read, a) ==
    LET decimals == At(data, read.j)
        strings == IsString(At(data, read.j + 1)) /\ IsString(At(data, read.j + 2))
        j == read.j + 1 + Retried(At(data, read.j + 1), At(data, read.j + 2))
        token == Metadata(decimals, At(data, j), At(data, j + 1))
        threw == \/ decimals.kind = "missing"
                 \/ ~strings /\ ~(IsBytes32(token.symbol) /\ IsBytes32(token.name))
    IN  IF a \in Natives THEN [read EXCEPT !.tokens = Append(@, Native)]
        ELSE [j |-> j + 2, tokens |-> Append(read.tokens, token), threw |-> read.threw \/ threw]

\* getTokens, of the answers to one multicall: it touches nothing the calls share.
GetTokens(c, wanted) ==
    /\ tokenCalls[c].pc = "idle"
    /\ LET data == ReturnData(wanted)
           read == FoldLeft(LAMBDA r, a : ReadNext(data, r, a), [j |-> 1, tokens |-> <<>>, threw |-> FALSE], wanted)
       IN  tokenCalls' = [tokenCalls EXCEPT ![c] =
             [NewTokenCall EXCEPT !.pc = IF read.threw THEN "threw" ELSE "read",
                                  !.shape = wanted, !.tokens = IF read.threw THEN <<>> ELSE read.tokens]]
    /\ UNCHANGED unifiedTokenMapCache

\* One of the contracts has no such function: the multicall reverts.
GetTokensFails(c) ==
    /\ tokenCalls[c].pc = "idle"
    /\ tokenCalls' = [tokenCalls EXCEPT ![c] = [NewTokenCall EXCEPT !.pc = "reverted"]]
    /\ UNCHANGED unifiedTokenMapCache

TokensNext ==
    \E c \in TokenCalls :
      \/ \E shape \in Shapes : UnifyTokens(c, shape)
      \/ \E external \in Fetched \cup {{}} : ReceiveTokens(c, external)
      \/ \E wanted \in Wanted : GetTokens(c, wanted)
      \/ GetTokensFails(c)

-----------------------------------------------------------------------------
(* Properties.                                                              *)

\* Where the data of a token comes from when that external list was fetched.
Source(a, external) ==
    IF a \in Custom THEN "custom" ELSE IF a \in external THEN "external" ELSE "given"

\* The tokens of call c are in their places and all replaced by what was fetched.
ReplacedBy(c, external) ==
    \A key \in DOMAIN tokenCalls[c].shape : \A i \in DOMAIN tokenCalls[c].shape[key] :
        LET a == tokenCalls[c].shape[key][i]
        IN  tokenCalls[c].tokens[key][i] = [address |-> a, source |-> Source(a, external)]

\* Every list of tokens handed out agrees, token by token, with one external list: the
\* one the call fetched, or else one some call has fetched.  The repository's own data
\* prevails over it.  With an empty first list no token is replaced.
CustomPrevails ==
    \A c \in TokenCalls : tokenCalls[c].pc = "unified" =>
        IF tokenCalls[c].shape[1] = <<>>
        THEN \A key \in DOMAIN tokenCalls[c].shape : \A i \in DOMAIN tokenCalls[c].shape[key] :
               tokenCalls[c].tokens[key][i] = [address |-> tokenCalls[c].shape[key][i],
                                               source |-> "given"]
        ELSE \E d \in TokenCalls : /\ tokenCalls[c].fetched # {} => d = c
                                   /\ \E external \in tokenCalls[d].fetched : ReplacedBy(c, external)

\* Once a list is cached and no call is fetching one any more, every call is answered from
\* that list, for good: a failed or late fetch cannot come over it later.
AnswersAgree ==
    \A c \in TokenCalls : tokenCalls[c].pc = "unified" /\ tokenCalls[c].settled =>
        tokenCalls[c].from = unifiedTokenMapCache

\* An empty symbol and a name in a bytes32: getToken can read them, getTokens cannot.
Mixed(a) == MetadataOf[a].symbol = "zero" /\ MetadataOf[a].name = "bytes32"

\* The running index never attributes one contract's data to another: what getTokens
\* answers is what getToken answers for each address, and it throws only for an address
\* getToken throws for, or a mixed one.
AsOneByOne ==
    \A c \in TokenCalls :
        LET call == tokenCalls[c]
        IN  /\ call.pc = "read" => call.tokens = [i \in DOMAIN call.shape |-> GetToken(call.shape[i])]
            /\ call.pc = "threw" => \E i \in DOMAIN call.shape :
                                      /\ call.shape[i] \notin Natives
                                      /\ GetToken(call.shape[i]) = Throws \/ Mixed(call.shape[i])
=============================================================================
