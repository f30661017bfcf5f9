-------------------------- MODULE RegistrationProofs --------------------------
(***************************************************************************)
(* Proofs about the registry and its handles, for any number of handles,   *)
(* tokens, channels and groups.  The first part is about the operators     *)
(* acquire and release are made of: each leaves the registry sound, and a  *)
(* token that serves the purpose it was acquired for goes on serving it.   *)
(* The second part is about the handles.                                   *)
(***************************************************************************)
EXTENDS Registration, FiniteSetTheorems, SequenceTheorems, TLAPS

USE RegistryAssumption DEF RegistryAssumption

-----------------------------------------------------------------------------
(* The two stacks *)

Holds(s, x) == \E i \in 1..Len(s) : s[i] = x
Distinct(s) == \A i, j \in 1..Len(s) : s[i] = s[j] => i = j

\* Popping a stack without repetition takes out its top and nothing else.
LEMMA StackPop ==
    ASSUME NEW S, NEW s \in Seq(S), s # <<>>, Distinct(s)
    PROVE  /\ Top(s) \in S /\ Holds(s, Top(s))
           /\ Pop(s) \in Seq(S) /\ Distinct(Pop(s)) /\ Len(Pop(s)) = Len(s) - 1
           /\ \A x : Holds(Pop(s), x) <=> Holds(s, x) /\ x # Top(s)
<1>1. Len(s) \in Nat \ {0}  BY EmptySeq
<1>2. Pop(s) \in Seq(S) /\ Len(Pop(s)) = Len(s) - 1
      /\ \A i \in 1..Len(s) - 1 : Pop(s)[i] = s[i]
  <2> DEFINE n == Len(s)  k == n - 1
  <2>1. Pop(s) = SubSeq(s, 1, k)  BY Zenon DEF Pop
  <2>2. n \in Nat /\ k \in Nat /\ k <= n  BY <1>1
  <2> HIDE DEF k
  <2>3. \A i \in 1..k : s[i] \in S
    <3>1. 1..k \subseteq 1..n  BY <2>2
    <3>2. \A i \in 1..n : s[i] \in S  BY ElementOfSeq
    <3> QED  BY <3>1, <3>2
  <2>4. /\ Pop(s) \in Seq(S) /\ Len(Pop(s)) = (IF 1 <= k THEN k - 1 + 1 ELSE 0)
        /\ \A i \in 1..k - 1 + 1 : Pop(s)[i] = s[1 + i - 1]
    BY <2>1, <2>2, <2>3, SubSeqProperties
  <2>5. (IF 1 <= k THEN k - 1 + 1 ELSE 0) = k /\ k - 1 + 1 = k  BY <2>2
  <2>6. \A i \in 1..k : 1 + i - 1 = i  BY <2>2
  <2>7. Pop(s) \in Seq(S) /\ Len(Pop(s)) = k /\ \A i \in 1..k : Pop(s)[i] = s[i]
    BY <2>4, <2>5, <2>6, Zenon
  <2> QED  BY <2>7, Zenon DEF k
<1>3. Top(s) \in S /\ Holds(s, Top(s))  BY <1>1 DEF Top, Holds
<1>4. Distinct(Pop(s))  BY <1>1, <1>2 DEF Distinct
<1>5. ASSUME NEW x PROVE Holds(Pop(s), x) <=> Holds(s, x) /\ x # Top(s)
  <2>1. Holds(Pop(s), x) => Holds(s, x) /\ x # Top(s)
    BY <1>1, <1>2 DEF Distinct, Holds, Top
  <2>2. Holds(s, x) /\ x # Top(s) => Holds(Pop(s), x)
    BY <1>1, <1>2 DEF Holds, Top
  <2> QED  BY <2>1, <2>2
<1> QED  BY <1>2, <1>3, <1>4, <1>5

\* Pushing what a stack does not hold keeps it without repetition.
LEMMA StackPush ==
    ASSUME NEW S, NEW s \in Seq(S), NEW y \in S, Distinct(s), ~Holds(s, y)
    PROVE  /\ Append(s, y) \in Seq(S) /\ Distinct(Append(s, y))
           /\ \A x : Holds(Append(s, y), x) <=> Holds(s, x) \/ x = y
<1>1. Append(s, y) \in Seq(S) /\ Len(Append(s, y)) = Len(s) + 1 /\ Len(s) \in Nat
      /\ Append(s, y)[Len(s) + 1] = y
      /\ \A i \in 1..Len(s) : Append(s, y)[i] = s[i]
  OBVIOUS
<1>2. Distinct(Append(s, y))  BY <1>1 DEF Distinct, Holds
<1>3. ASSUME NEW x PROVE Holds(Append(s, y), x) <=> Holds(s, x) \/ x = y
  <2>1. Holds(Append(s, y), x) => Holds(s, x) \/ x = y  BY <1>1 DEF Holds
  <2>2. Holds(s, x) => Holds(Append(s, y), x)  BY <1>1 DEF Holds
  <2>3. Len(s) + 1 \in 1..Len(Append(s, y))  BY <1>1
  <2>4. x = y => Holds(Append(s, y), x)  BY <1>1, <2>3 DEF Holds
  <2> QED  BY <2>1, <2>2, <2>4
<1> QED  BY <1>1, <1>2, <1>3

\* A stack without repetition is not longer than what it may hold has elements.
LEMMA StackFits ==
    ASSUME NEW S, NEW T, NEW s \in Seq(S), Distinct(s), IsFiniteSet(T),
           \A x : Holds(s, x) => x \in T
    PROVE  Len(s) <= Cardinality(T)
<1>1. Len(s) \in Nat /\ s \in [1..Len(s) -> T]
  <2>1. Len(s) \in Nat /\ s \in [1..Len(s) -> S]  OBVIOUS
  <2>2. \A i \in 1..Len(s) : s[i] \in T  BY DEF Holds
  <2> QED  BY <2>1, <2>2
<1>2. s \in Injection(1..Len(s), T)
  BY <1>1 DEF Injection, IsInjective, Distinct
<1>3. Cardinality(1..Len(s)) = Len(s)
  <2>1. \A n \in Nat : Cardinality(1..n) = IF 1 > n THEN 0 ELSE n - 1 + 1
    BY FS_Interval
  <2>2. \A n \in Nat : Cardinality(1..n) = n  BY <2>1
  <2> QED  BY <1>1, <2>2
<1>4. Cardinality(1..Len(s)) <= Cardinality(T)
  BY <1>2, FS_Injection
<1> QED  BY <1>3, <1>4

-----------------------------------------------------------------------------
(* What acquire and release do to each part of the registry *)

Used(r) == {t \in Token : r.tokenUsed[t]}

\* RegistrySound of one registry, with its type.
Sound(r) ==
    /\ r \in Registry
    /\ TokensAccounted(r) /\ ChannelsAccounted(r) /\ UsersCounted(r) /\ GroupsSound(r)

\* The properties of Registration say with indices what Holds and Distinct say.
LEMMA StacksOf ==
    ASSUME NEW r, r \in Registry
    PROVE  /\ TokensAccounted(r) <=>
                /\ \A t \in Token : r.tokenUsed[t] => t < r.nextToken
                /\ \A t \in Token : t < r.nextToken /\ ~r.tokenUsed[t] <=> Holds(r.freeTokens, t)
                /\ Distinct(r.freeTokens)
           /\ ChannelsAccounted(r) <=>
                /\ \A c \in Channel : r.channelRefCount[c] = 0 <=> Holds(r.freeChannels, c)
                /\ Distinct(r.freeChannels)
BY DEF TokensAccounted, ChannelsAccounted, Holds, Distinct

\* The types of the fields, one by one.
LEMMA Fields ==
    ASSUME NEW r, r \in Registry
    PROVE  /\ r.nextToken \in 0..kMaxBindings
           /\ r.tokenToChannel \in [Token -> Channel] /\ r.tokenUsed \in [Token -> BOOLEAN]
           /\ r.freeTokens \in Seq(Token) /\ r.freeChannels \in Seq(Channel)
           /\ r.channelRefCount \in [Channel -> Nat]
           /\ r.channelMode \in [Channel -> {Exclusive, Shared}]
           /\ r.groupToChannel \in [Group -> Channel \cup {kNoChannel}]
BY DEF Registry

\* A registry in which a token is bound to a channel is a registry.
LEMMA Rebound ==
    \A r \in Registry, x \in Token, c \in Channel :
        [r EXCEPT !.tokenToChannel[x] = c, !.tokenUsed[x] = TRUE] \in Registry
<1> HIDE RegistryAssumption DEF RegistryAssumption
<1>1. ASSUME NEW N, NEW T, NEW C, NEW F, NEW P, NEW R, NEW M, NEW G,
             NEW r, NEW x \in T, NEW c \in C,
             r \in [nextToken : N, tokenToChannel : [T -> C], tokenUsed : [T -> BOOLEAN],
                   freeTokens : F, freeChannels : P, channelRefCount : R, channelMode : M,
                   groupToChannel : G]
      PROVE  [r EXCEPT !.tokenToChannel[x] = c, !.tokenUsed[x] = TRUE]
             \in [nextToken : N, tokenToChannel : [T -> C], tokenUsed : [T -> BOOLEAN],
                 freeTokens : F, freeChannels : P, channelRefCount : R, channelMode : M,
                 groupToChannel : G]
  BY <1>1
<1> QED  BY <1>1, Zenon DEF Registry

\* There are finitely many users of a channel.
LEMMA UsersFinite ==
    \A r, c : IsFiniteSet(UsersOf(r, c)) /\ Cardinality(UsersOf(r, c)) \in Nat
<1> SUFFICES ASSUME NEW r, NEW c
             PROVE  IsFiniteSet(UsersOf(r, c)) /\ Cardinality(UsersOf(r, c)) \in Nat
    OBVIOUS
<1>1. IsFiniteSet(Token)  BY FS_Interval DEF Token
<1>2. UsersOf(r, c) \in SUBSET Token  BY DEF UsersOf
<1>3. IsFiniteSet(UsersOf(r, c))  BY <1>1, <1>2, FS_Subset
<1> QED  BY <1>3, FS_CardinalityType

\* A channel that counts nobody has no users.
LEMMA NobodyCounted ==
    ASSUME NEW r, Sound(r), NEW c \in Channel, r.channelRefCount[c] = 0
    PROVE  UsersOf(r, c) = {}
<1>1. Cardinality(UsersOf(r, c)) = 0  BY UsersFinite DEF Sound, UsersCounted
<1> QED  BY <1>1, UsersFinite, FS_EmptySet

\* TakeChannel, field by field: it leaves the tokens alone.
Takes(r, p, c, q) ==
    /\ q \in Registry
    /\ q.nextToken = r.nextToken /\ q.tokenUsed = r.tokenUsed
    /\ q.tokenToChannel = r.tokenToChannel /\ q.freeTokens = r.freeTokens
    /\ q.freeChannels = IF Joins(r, p) THEN r.freeChannels ELSE Pop(r.freeChannels)
    /\ q.channelRefCount =
         [r.channelRefCount EXCEPT ![c] = IF Joins(r, p) THEN @ + 1 ELSE 1]
    /\ q.channelMode =
         [r.channelMode EXCEPT ![c] = IF p \in Group THEN Shared ELSE Exclusive]
    /\ q.groupToChannel =
         IF Joins(r, p) THEN r.groupToChannel
         ELSE [g \in Group |-> IF g = p THEN c ELSE r.groupToChannel[g]]

\* The fields of what TakeChannel leaves.
LEMMA TakeFields ==
    ASSUME NEW r, r \in Registry, NEW p \in Purpose, ChannelLeft(r, p),
           NEW c \in Channel, c = ChannelFor(r, p), NEW q, q = TakeChannel(r, p),
           Joins(r, p) \/ Pop(r.freeChannels) \in Seq(Channel)
    PROVE  Takes(r, p, c, q)
<1> USE Fields DEF Takes
<1>1. CASE Joins(r, p)
  <2>1. p \in Group  BY <1>1 DEF Joins
  <2>2. q = [r EXCEPT !.channelRefCount[c] = @ + 1, !.channelMode[c] = Shared]
    BY <1>1 DEF TakeChannel
  <2>3. /\ q.nextToken = r.nextToken /\ q.tokenUsed = r.tokenUsed
        /\ q.tokenToChannel = r.tokenToChannel /\ q.freeTokens = r.freeTokens
        /\ q.freeChannels = r.freeChannels /\ q.groupToChannel = r.groupToChannel
        /\ q.channelRefCount = [r.channelRefCount EXCEPT ![c] = @ + 1]
        /\ q.channelMode = [r.channelMode EXCEPT ![c] = Shared]
    BY <2>2 DEF Registry
  <2>4. q.channelRefCount \in [Channel -> Nat]
        /\ q.channelMode \in [Channel -> {Exclusive, Shared}]
    BY <2>3
  <2>5. q \in Registry  BY <2>2, <2>4 DEF Registry
  <2> QED  BY <1>1, <2>1, <2>3, <2>5
<1>2. CASE ~Joins(r, p)
  <2>1. q = [r EXCEPT !.freeChannels = Pop(@),
                       !.channelRefCount[c] = 1,
                       !.channelMode[c] = IF p \in Group THEN Shared ELSE Exclusive,
                       !.groupToChannel = [g \in Group |-> IF g = p THEN c ELSE @[g]]]
    BY <1>2 DEF TakeChannel
  <2>3. /\ q.nextToken = r.nextToken /\ q.tokenUsed = r.tokenUsed
        /\ q.tokenToChannel = r.tokenToChannel /\ q.freeTokens = r.freeTokens
        /\ q.freeChannels = Pop(r.freeChannels)
        /\ q.groupToChannel = [g \in Group |-> IF g = p THEN c ELSE r.groupToChannel[g]]
        /\ q.channelRefCount = [r.channelRefCount EXCEPT ![c] = 1]
        /\ q.channelMode =
             [r.channelMode EXCEPT ![c] = IF p \in Group THEN Shared ELSE Exclusive]
    BY <2>1 DEF Registry
  <2>4. q.channelRefCount \in [Channel -> Nat]
        /\ q.channelMode \in [Channel -> {Exclusive, Shared}]
        /\ q.groupToChannel \in [Group -> Channel \cup {kNoChannel}]
    BY <2>3
  <2>5. q \in Registry  BY <1>2, <2>1, <2>4 DEF Registry
  <2> QED  BY <1>2, <2>3, <2>5
<1> QED  BY <1>1, <1>2

\* The channel that acquire takes: the group's, which is in use, or one that nobody
\* uses and no group points to.
LEMMA Chosen ==
    ASSUME NEW r, Sound(r), NEW p \in Purpose, ChannelLeft(r, p),
           NEW c, c = ChannelFor(r, p)
    PROVE  /\ c \in Channel
           /\ Joins(r, p) => /\ p \in Group /\ r.groupToChannel[p] = c
                             /\ r.channelRefCount[c] > 0 /\ r.channelMode[c] = Shared
           /\ ~Joins(r, p) =>
                 /\ Pop(r.freeChannels) \in Seq(Channel) /\ Distinct(Pop(r.freeChannels))
                 /\ \A d : Holds(Pop(r.freeChannels), d) <=> Holds(r.freeChannels, d) /\ d # c
                 /\ r.channelRefCount[c] = 0 /\ UsersOf(r, c) = {}
                 /\ \A g \in Group : r.groupToChannel[g] # c
                 /\ p \in Group => r.groupToChannel[p] = kNoChannel
<1> USE DEF Sound
<1>0. /\ r.groupToChannel \in [Group -> Channel \cup {kNoChannel}]
      /\ r.freeChannels \in Seq(Channel) /\ r.channelRefCount \in [Channel -> Nat]
  BY Fields
<1>1. CASE Joins(r, p)
  <2>1. p \in Group /\ c = r.groupToChannel[p] /\ c # kNoChannel /\ r.channelRefCount[c] > 0
    BY <1>1 DEF Joins, ChannelFor
  <2>2. c \in Channel  BY <1>0, <2>1
  <2>3. r.channelMode[c] = Shared  BY <2>1 DEF GroupsSound
  <2> QED  BY <1>1, <2>1, <2>2, <2>3
<1>2. CASE ~Joins(r, p)
  <2>1. r.freeChannels # <<>> /\ c = Top(r.freeChannels)
    BY <1>2 DEF ChannelLeft, ChannelFor
  <2>2. Distinct(r.freeChannels)  BY StacksOf
  <2>3. /\ c \in Channel /\ Holds(r.freeChannels, c)
        /\ Pop(r.freeChannels) \in Seq(Channel) /\ Distinct(Pop(r.freeChannels))
        /\ \A d : Holds(Pop(r.freeChannels), d) <=> Holds(r.freeChannels, d) /\ d # c
    BY <1>0, <2>1, <2>2, StackPop
  <2>4. r.channelRefCount[c] = 0  BY <2>3, StacksOf
  <2>5. UsersOf(r, c) = {}  BY <2>3, <2>4, NobodyCounted
  <2>6. \A g \in Group : r.groupToChannel[g] # c
    BY <2>3, <2>4 DEF GroupsSound, Channel
  <2>7. p \in Group => r.groupToChannel[p] = kNoChannel
    <3>1. p \in Group /\ r.groupToChannel[p] # kNoChannel => Joins(r, p)
      BY DEF GroupsSound, Joins
    <3> QED  BY <1>2, <3>1
  <2> QED  BY <1>2, <2>3, <2>4, <2>5, <2>6, <2>7
<1> QED  BY <1>1, <1>2

\* Taking a channel leaves the registry sound, and one more counted than users.
LEMMA TakeSound ==
    ASSUME NEW r, Sound(r), NEW p \in Purpose, ChannelLeft(r, p)
    PROVE  /\ Sound(TakeChannel(r, p))
           /\ Cardinality(UsersOf(TakeChannel(r, p), ChannelFor(r, p)))
                 < TakeChannel(r, p).channelRefCount[ChannelFor(r, p)]
<1> DEFINE q == TakeChannel(r, p)
           c == ChannelFor(r, p)
<1>0. c \in Channel /\ r \in Registry  BY Chosen DEF Sound
<1>1. /\ q \in Registry
      /\ q.nextToken = r.nextToken /\ q.tokenUsed = r.tokenUsed
      /\ q.tokenToChannel = r.tokenToChannel /\ q.freeTokens = r.freeTokens
      /\ q.freeChannels = IF Joins(r, p) THEN r.freeChannels ELSE Pop(r.freeChannels)
      /\ q.channelRefCount = [r.channelRefCount EXCEPT ![c] = IF Joins(r, p) THEN @ + 1 ELSE 1]
      /\ q.channelMode = [r.channelMode EXCEPT ![c] = IF p \in Group THEN Shared ELSE Exclusive]
      /\ q.groupToChannel = IF Joins(r, p) THEN r.groupToChannel
                            ELSE [g \in Group |-> IF g = p THEN c ELSE r.groupToChannel[g]]
  <2>1. Joins(r, p) \/ Pop(r.freeChannels) \in Seq(Channel)  BY Chosen
  <2>2. Takes(r, p, c, q)  BY <1>0, <2>1, TakeFields
  <2> QED  BY <2>2 DEF Takes
<1>2. /\ Joins(r, p) => p \in Group /\ r.groupToChannel[p] = c /\ r.channelRefCount[c] > 0
      /\ ~Joins(r, p) =>
            /\ Distinct(Pop(r.freeChannels))
            /\ \A d : Holds(Pop(r.freeChannels), d) <=> Holds(r.freeChannels, d) /\ d # c
            /\ r.channelRefCount[c] = 0 /\ UsersOf(r, c) = {}
            /\ \A g \in Group : r.groupToChannel[g] # c
  BY Chosen
<1>3. /\ r.channelRefCount \in [Channel -> Nat]
      /\ r.channelMode \in [Channel -> {Exclusive, Shared}]
      /\ r.groupToChannel \in [Group -> Channel \cup {kNoChannel}]
  BY <1>0, Fields
<1>4. \A d : UsersOf(q, d) = UsersOf(r, d)  BY <1>1 DEF UsersOf
<1> HIDE DEF q, c
<1>5. TokensAccounted(q)  BY <1>0, <1>1, StacksOf DEF Sound
<1>6. ChannelsAccounted(q)
  <2>1. /\ \A d \in Channel : r.channelRefCount[d] = 0 <=> Holds(r.freeChannels, d)
        /\ Distinct(r.freeChannels)
    BY <1>0, StacksOf DEF Sound
  <2>2. Distinct(q.freeChannels)  BY <1>1, <1>2, <2>1
  <2>3. \A d \in Channel : q.channelRefCount[d] = 0 <=> Holds(q.freeChannels, d)
    <3>1. CASE Joins(r, p)  BY <1>0, <1>1, <1>2, <1>3, <2>1, <3>1
    <3>2. CASE ~Joins(r, p)  BY <1>0, <1>1, <1>2, <1>3, <2>1, <3>2
    <3> QED  BY <3>1, <3>2
  <2> QED  BY <1>1, <2>2, <2>3, StacksOf
<1>7. Cardinality(UsersOf(q, c)) < q.channelRefCount[c]
  <2>1. Cardinality(UsersOf(r, c)) <= r.channelRefCount[c]  BY <1>0 DEF Sound, UsersCounted
  <2>2. Cardinality(UsersOf(r, c)) \in Nat /\ Cardinality({}) = 0  BY UsersFinite, FS_EmptySet
  <2>3. UsersOf(q, c) = UsersOf(r, c)  BY <1>4
  <2>4. CASE Joins(r, p)
    <3>1. q.channelRefCount[c] = r.channelRefCount[c] + 1  BY <1>0, <1>1, <1>3, <2>4
    <3> QED  BY <1>0, <1>3, <2>1, <2>2, <2>3, <3>1
  <2>5. CASE ~Joins(r, p)
    <3>1. q.channelRefCount[c] = 1  BY <1>0, <1>1, <1>3, <2>5
    <3> QED  BY <1>2, <2>2, <2>3, <2>5, <3>1
  <2> QED  BY <2>4, <2>5
<1>8. UsersCounted(q)
  <2>1. \A d \in Channel : Cardinality(UsersOf(q, d)) = Cardinality(UsersOf(r, d))
                           /\ Cardinality(UsersOf(q, d)) \in Nat
    BY <1>4, UsersFinite
  <2>2. \A d \in Channel : d # c => Cardinality(UsersOf(q, d)) <= q.channelRefCount[d]
    BY <1>1, <1>3, <2>1 DEF Sound, UsersCounted
  <2>3. Cardinality(UsersOf(q, c)) <= q.channelRefCount[c]
    <3>1. q.channelRefCount[c] \in Nat  BY <1>0, <1>1, Fields
    <3> QED  BY <1>0, <1>7, <2>1, <3>1
  <2> QED  BY <2>2, <2>3 DEF UsersCounted
<1>9. GroupsSound(q)
  <2>1. \A g \in Group : r.groupToChannel[g] # kNoChannel =>
            /\ r.groupToChannel[g] \in Channel
            /\ r.channelRefCount[r.groupToChannel[g]] > 0
            /\ r.channelMode[r.groupToChannel[g]] = Shared
            /\ \A h \in Group : r.groupToChannel[h] = r.groupToChannel[g] => h = g
    BY <1>3 DEF Sound, GroupsSound
  <2>2. CASE Joins(r, p)
    BY <1>0, <1>1, <1>2, <1>3, <2>1, <2>2 DEF GroupsSound
  <2>3. CASE ~Joins(r, p)
    <3>1. \A d \in Channel : q.channelRefCount[d] = IF d = c THEN 1 ELSE r.channelRefCount[d]
      BY <1>1, <1>3, <2>3
    <3>2. \A d \in Channel : q.channelMode[d] = IF d = c THEN IF p \in Group THEN Shared
                                                              ELSE Exclusive
                                                ELSE r.channelMode[d]
      BY <1>1, <1>3
    <3>3. \A g \in Group : q.groupToChannel[g] = IF g = p THEN c ELSE r.groupToChannel[g]
      BY <1>1, <2>3
    <3> QED  BY <1>0, <1>2, <2>1, <2>3, <3>1, <3>2, <3>3 DEF GroupsSound
  <2> QED  BY <2>2, <2>3
<1> QED  BY <1>1, <1>5, <1>6, <1>7, <1>8, <1>9 DEF Sound, q, c

-----------------------------------------------------------------------------
(* Tokens *)

\* The token that allocateToken returns is nobody's.
LEMMA Fresh ==
    ASSUME NEW r, Sound(r), TokensLeft(r), NEW x, x = FreshToken(r)
    PROVE  /\ x \in Token /\ ~r.tokenUsed[x]
           /\ r.freeTokens # <<>> =>
                 /\ x < r.nextToken
                 /\ Pop(r.freeTokens) \in Seq(Token) /\ Distinct(Pop(r.freeTokens))
                 /\ \A t : Holds(Pop(r.freeTokens), t) <=> Holds(r.freeTokens, t) /\ t # x
           /\ r.freeTokens = <<>> => x = r.nextToken /\ r.nextToken < kMaxBindings
<1> USE DEF Sound
<1>0. /\ r.nextToken \in 0..kMaxBindings /\ r.freeTokens \in Seq(Token)
      /\ r.tokenUsed \in [Token -> BOOLEAN]
  BY Fields
<1>1. CASE r.freeTokens # <<>>
  <2>1. x = Top(r.freeTokens)  BY <1>1 DEF FreshToken
  <2>2. Distinct(r.freeTokens)  BY StacksOf
  <2>3. /\ x \in Token /\ Holds(r.freeTokens, x)
        /\ Pop(r.freeTokens) \in Seq(Token) /\ Distinct(Pop(r.freeTokens))
        /\ \A t : Holds(Pop(r.freeTokens), t) <=> Holds(r.freeTokens, t) /\ t # x
    BY <1>0, <1>1, <2>1, <2>2, StackPop
  <2>4. x < r.nextToken /\ ~r.tokenUsed[x]  BY <2>3, StacksOf
  <2> QED  BY <1>1, <2>3, <2>4
<1>2. CASE r.freeTokens = <<>>
  <2>1. x = r.nextToken /\ r.nextToken < kMaxBindings  BY <1>2 DEF FreshToken, TokensLeft
  <2>2. x \in Token  BY <1>0, <2>1 DEF Token
  <2>3. ~r.tokenUsed[x]  BY <1>0, <2>1, <2>2, StacksOf
  <2> QED  BY <1>2, <2>1, <2>2, <2>3
<1> QED  BY <1>1, <1>2

\* allocateToken, field by field.
Allocates(r, c, x, q) ==
    /\ q \in Registry
    /\ q.nextToken = IF r.freeTokens # <<>> THEN r.nextToken ELSE r.nextToken + 1
    /\ q.freeTokens = IF r.freeTokens # <<>> THEN Pop(r.freeTokens) ELSE r.freeTokens
    /\ q.tokenUsed = [r.tokenUsed EXCEPT ![x] = TRUE]
    /\ q.tokenToChannel = [r.tokenToChannel EXCEPT ![x] = c]
    /\ q.freeChannels = r.freeChannels /\ q.channelRefCount = r.channelRefCount
    /\ q.channelMode = r.channelMode /\ q.groupToChannel = r.groupToChannel

\* The fields of what allocateToken leaves when it returns.
LEMMA AllocateFields ==
    ASSUME NEW r, Sound(r), TokensLeft(r), NEW c \in Channel,
           NEW x, x = FreshToken(r), NEW q, q = AllocateToken(r, c)
    PROVE  Allocates(r, c, x, q)
<1> USE DEF Allocates
<1>0. r \in Registry  BY DEF Sound
<1>1. x \in Token  BY Fresh
<1> DEFINE bound == [r EXCEPT !.tokenToChannel[x] = c, !.tokenUsed[x] = TRUE]
<1>2. /\ bound.tokenUsed = [r.tokenUsed EXCEPT ![x] = TRUE]
      /\ bound.tokenToChannel = [r.tokenToChannel EXCEPT ![x] = c]
      /\ bound.nextToken = r.nextToken /\ bound.freeTokens = r.freeTokens
      /\ bound.freeChannels = r.freeChannels /\ bound.channelRefCount = r.channelRefCount
      /\ bound.channelMode = r.channelMode /\ bound.groupToChannel = r.groupToChannel
      /\ DOMAIN bound = DOMAIN r
  BY <1>0 DEF Registry
<1>3. bound \in Registry
  BY <1>0, <1>1, Rebound, Zenon
<1>4. q = IF r.freeTokens # <<>> THEN [bound EXCEPT !.freeTokens = Pop(@)]
                                 ELSE [bound EXCEPT !.nextToken = @ + 1]
  BY DEF AllocateToken
<1> HIDE DEF bound
<1>5. CASE r.freeTokens # <<>>
  <2>1. q = [bound EXCEPT !.freeTokens = Pop(@)]  BY <1>4, <1>5
  <2>2. Pop(bound.freeTokens) \in Seq(Token)  BY <1>2, <1>5, Fresh
  <2>3. q \in Registry  BY <1>3, <2>1, <2>2 DEF Registry
  <2> QED  BY <1>2, <1>3, <1>5, <2>1, <2>3 DEF Registry
<1>6. CASE r.freeTokens = <<>>
  <2>1. q = [bound EXCEPT !.nextToken = @ + 1]  BY <1>4, <1>6
  <2>2. bound.nextToken + 1 \in 0..kMaxBindings
    <3>1. r.nextToken \in 0..kMaxBindings /\ r.nextToken < kMaxBindings
      BY <1>0, <1>6, Fields, Fresh
    <3> QED  BY <1>2, <3>1
  <2>3. q \in Registry  BY <1>3, <2>1, <2>2 DEF Registry
  <2> QED  BY <1>2, <1>3, <1>6, <2>1, <2>3 DEF Registry
<1> QED  BY <1>5, <1>6

\* Binding a token to a channel that counts one more than its users.
LEMMA AllocateSound ==
    ASSUME NEW r, Sound(r), TokensLeft(r), NEW c \in Channel,
           Cardinality(UsersOf(r, c)) < r.channelRefCount[c]
    PROVE  Sound(AllocateToken(r, c))
<1> DEFINE q == AllocateToken(r, c)
           x == FreshToken(r)
<1>0. r \in Registry  BY DEF Sound
<1>1. /\ q \in Registry
      /\ q.nextToken = IF r.freeTokens # <<>> THEN r.nextToken ELSE r.nextToken + 1
      /\ q.freeTokens = IF r.freeTokens # <<>> THEN Pop(r.freeTokens) ELSE r.freeTokens
      /\ q.tokenUsed = [r.tokenUsed EXCEPT ![x] = TRUE]
      /\ q.tokenToChannel = [r.tokenToChannel EXCEPT ![x] = c]
      /\ q.freeChannels = r.freeChannels /\ q.channelRefCount = r.channelRefCount
      /\ q.channelMode = r.channelMode /\ q.groupToChannel = r.groupToChannel
  <2>1. Allocates(r, c, x, q)  BY AllocateFields
  <2> QED  BY <2>1 DEF Allocates
<1>2. /\ x \in Token /\ ~r.tokenUsed[x]
      /\ r.freeTokens # <<>> =>
            /\ x < r.nextToken /\ Distinct(Pop(r.freeTokens))
            /\ \A t : Holds(Pop(r.freeTokens), t) <=> Holds(r.freeTokens, t) /\ t # x
      /\ r.freeTokens = <<>> => x = r.nextToken /\ r.nextToken < kMaxBindings
  BY Fresh
<1>3. /\ r.nextToken \in 0..kMaxBindings /\ r.tokenUsed \in [Token -> BOOLEAN]
      /\ r.tokenToChannel \in [Token -> Channel] /\ r.channelRefCount \in [Channel -> Nat]
  BY <1>0, Fields
<1> HIDE DEF q, x
<1>4. TokensAccounted(q)
  <2>1. /\ \A t \in Token : r.tokenUsed[t] => t < r.nextToken
        /\ \A t \in Token : t < r.nextToken /\ ~r.tokenUsed[t] <=> Holds(r.freeTokens, t)
        /\ Distinct(r.freeTokens)
    BY <1>0, StacksOf DEF Sound
  <2>2. \A t \in Token : q.tokenUsed[t] <=> t = x \/ r.tokenUsed[t]  BY <1>1, <1>3
  <2>3. \A t \in Token : t \in Nat  BY DEF Token
  <2>4. CASE r.freeTokens # <<>>
    BY <1>1, <1>2, <2>1, <2>2, <2>4, StacksOf
  <2>5. CASE r.freeTokens = <<>>
    <3>1. q.nextToken = r.nextToken + 1 /\ q.freeTokens = r.freeTokens /\ x = r.nextToken
      BY <1>1, <1>2, <2>5
    <3>2. \A t \in Token : t < q.nextToken <=> t < r.nextToken \/ t = x
      BY <1>3, <2>3, <3>1
    <3>3. ~Holds(r.freeTokens, x)  BY <1>2, <1>3, <2>1, <3>1
    <3> QED  BY <1>1, <2>1, <2>2, <3>1, <3>2, <3>3, StacksOf
  <2> QED  BY <2>4, <2>5
<1>5. ChannelsAccounted(q)  BY <1>0, <1>1, StacksOf DEF Sound
<1>6. GroupsSound(q)  BY <1>1 DEF Sound, GroupsSound
<1>7. UsersCounted(q)
  <2>1. UsersOf(q, c) = UsersOf(r, c) \cup {x}
    <3>1. \A t \in Token : q.tokenUsed[t] /\ q.tokenToChannel[t] = c
                              <=> t = x \/ (r.tokenUsed[t] /\ r.tokenToChannel[t] = c)
      BY <1>1, <1>2, <1>3
    <3> QED  BY <1>2, <3>1 DEF UsersOf
  <2>2. \A d \in Channel : d # c => UsersOf(q, d) = UsersOf(r, d)
    <3> SUFFICES ASSUME NEW d \in Channel, d # c PROVE UsersOf(q, d) = UsersOf(r, d)  OBVIOUS
    <3>1. \A t \in Token : q.tokenUsed[t] /\ q.tokenToChannel[t] = d
                              <=> r.tokenUsed[t] /\ r.tokenToChannel[t] = d
      BY <1>1, <1>2, <1>3
    <3> QED  BY <3>1 DEF UsersOf
  <2>3. Cardinality(UsersOf(q, c)) <= Cardinality(UsersOf(r, c)) + 1
    <3>1. x \notin UsersOf(r, c)  BY <1>2 DEF UsersOf
    <3>2. IsFiniteSet(UsersOf(r, c)) /\ Cardinality(UsersOf(r, c)) \in Nat  BY UsersFinite
    <3>3. Cardinality(UsersOf(r, c) \cup {x}) = Cardinality(UsersOf(r, c)) + 1
      BY <3>1, <3>2, FS_AddElement
    <3> QED  BY <2>1, <3>2, <3>3
  <2>4. /\ Cardinality(UsersOf(r, c)) \in Nat /\ Cardinality(UsersOf(q, c)) \in Nat
        /\ r.channelRefCount[c] \in Nat
    BY <1>3, UsersFinite
  <2>5. Cardinality(UsersOf(q, c)) <= q.channelRefCount[c]  BY <1>1, <2>3, <2>4
  <2>6. \A d \in Channel : d # c => Cardinality(UsersOf(q, d)) <= q.channelRefCount[d]
    BY <1>1, <2>2 DEF Sound, UsersCounted
  <2> QED  BY <2>5, <2>6 DEF UsersCounted
<1> QED  BY <1>1, <1>4, <1>5, <1>6, <1>7 DEF Sound, q

\* acquire leaves the registry sound, on every path: also where it throws.
LEMMA AcquireSound ==
    ASSUME NEW r, Sound(r), NEW p \in Purpose
    PROVE  Sound(Acquire(r, p))
<1>1. CASE ~ChannelLeft(r, p)  BY <1>1 DEF Acquire
<1>2. CASE ChannelLeft(r, p) /\ ~TokensLeft(TakeChannel(r, p))
  BY <1>2, TakeSound DEF Acquire, AllocateToken
<1>3. CASE ChannelLeft(r, p) /\ TokensLeft(TakeChannel(r, p))
  BY <1>3, TakeSound, AllocateSound, Chosen DEF Acquire
<1> QED  BY <1>1, <1>2, <1>3

-----------------------------------------------------------------------------
(* release *)

\* release, field by field.
Releases(r, t, c, q) ==
    /\ c \in Channel /\ r.channelRefCount[c] > 0 /\ ~Holds(r.freeTokens, t)
    /\ q \in Registry
    /\ q.nextToken = r.nextToken /\ q.freeTokens = Append(r.freeTokens, t)
    /\ q.tokenUsed = [r.tokenUsed EXCEPT ![t] = FALSE]
    /\ q.tokenToChannel = r.tokenToChannel /\ q.channelMode = r.channelMode
    /\ q.channelRefCount = [r.channelRefCount EXCEPT ![c] = @ - 1]
    /\ q.freeChannels = IF r.channelRefCount[c] = 1 THEN Append(r.freeChannels, c)
                        ELSE r.freeChannels
    /\ q.groupToChannel =
         IF r.channelRefCount[c] = 1
         THEN [g \in Group |-> IF r.groupToChannel[g] = c THEN kNoChannel
                               ELSE r.groupToChannel[g]]
         ELSE r.groupToChannel

\* The fields of what release leaves when it returns.  One group points to a channel
\* at most, so the first that does is the one that does.
LEMMA ReleaseFields ==
    ASSUME NEW r, Sound(r), NEW t \in Token, Releasable(r, t),
           NEW c, c = r.tokenToChannel[t], NEW q, q = Release(r, t)
    PROVE  Releases(r, t, c, q)
<1>0. /\ r \in Registry /\ r.tokenUsed \in [Token -> BOOLEAN]
      /\ r.tokenToChannel \in [Token -> Channel] /\ r.channelRefCount \in [Channel -> Nat]
      /\ r.freeTokens \in Seq(Token) /\ r.freeChannels \in Seq(Channel)
      /\ r.groupToChannel \in [Group -> Channel \cup {kNoChannel}]
  BY Fields DEF Sound
<1>1. c \in Channel  BY <1>0
<1>2. r.channelRefCount[c] > 0
  <2>1. t \in UsersOf(r, c)  BY DEF Releasable, UsersOf
  <2>2. Cardinality(UsersOf(r, c)) # 0  BY <2>1, UsersFinite, FS_EmptySet
  <2>3. Cardinality(UsersOf(r, c)) \in Nat /\ r.channelRefCount[c] \in Nat
    BY <1>0, <1>1, UsersFinite
  <2>4. Cardinality(UsersOf(r, c)) <= r.channelRefCount[c]  BY <1>1 DEF Sound, UsersCounted
  <2> QED  BY <2>2, <2>3, <2>4
<1>3. ~Holds(r.freeTokens, t)  BY <1>0, StacksOf DEF Sound, Releasable
<1> DEFINE left == [r EXCEPT !.channelRefCount[c] = @ - 1]
           gone == LeaveChannel(r, c)
<1>4. /\ left.channelRefCount = [r.channelRefCount EXCEPT ![c] = @ - 1]
      /\ left.nextToken = r.nextToken /\ left.freeTokens = r.freeTokens
      /\ left.tokenUsed = r.tokenUsed /\ left.tokenToChannel = r.tokenToChannel
      /\ left.freeChannels = r.freeChannels /\ left.channelMode = r.channelMode
      /\ left.groupToChannel = r.groupToChannel
  BY <1>0 DEF Registry
<1>5. left \in Registry
  <2>1. [r.channelRefCount EXCEPT ![c] = @ - 1] \in [Channel -> Nat]
    BY <1>0, <1>1, <1>2
  <2> QED  BY <1>0, <2>1 DEF Registry
<1>6. left.channelRefCount[c] > 0 <=> r.channelRefCount[c] # 1
  <2>1. left.channelRefCount[c] = r.channelRefCount[c] - 1  BY <1>0, <1>1, <1>4
  <2> QED  BY <1>0, <1>1, <1>2, <2>1
<1> DEFINE First(g) == /\ r.groupToChannel[g] = c
                       /\ \A h \in Group : r.groupToChannel[h] = c => g <= h
<1>7. \A g \in Group : First(g) <=> r.groupToChannel[g] = c
  <2>1. c # kNoChannel  BY <1>1 DEF Channel
  <2>2. \A g, h \in Group : r.groupToChannel[g] = c /\ r.groupToChannel[h] = c => g = h
    BY <2>1 DEF Sound, GroupsSound
  <2>3. \A g \in Group : g <= g  BY DEF Group
  <2> QED  BY <2>2, <2>3
<1>8. gone = IF left.channelRefCount[c] > 0 THEN left
             ELSE [left EXCEPT
                      !.freeChannels = Append(@, c),
                      !.groupToChannel = [g \in Group |-> IF First(g) THEN kNoChannel ELSE @[g]]]
  BY DEF LeaveChannel
<1> HIDE DEF left, First
<1>9. /\ gone \in Registry
      /\ gone.nextToken = r.nextToken /\ gone.freeTokens = r.freeTokens
      /\ gone.tokenUsed = r.tokenUsed /\ gone.tokenToChannel = r.tokenToChannel
      /\ gone.channelMode = r.channelMode
      /\ gone.channelRefCount = [r.channelRefCount EXCEPT ![c] = @ - 1]
      /\ gone.freeChannels = IF r.channelRefCount[c] = 1 THEN Append(r.freeChannels, c)
                             ELSE r.freeChannels
      /\ gone.groupToChannel =
           IF r.channelRefCount[c] = 1
           THEN [g \in Group |-> IF r.groupToChannel[g] = c THEN kNoChannel
                                 ELSE r.groupToChannel[g]]
           ELSE r.groupToChannel
  <2>1. CASE r.channelRefCount[c] # 1  BY <1>4, <1>5, <1>6, <1>8, <2>1
  <2>2. CASE r.channelRefCount[c] = 1
    <3> DEFINE groups == [g \in Group |-> IF r.groupToChannel[g] = c THEN kNoChannel
                                          ELSE r.groupToChannel[g]]
    <3>1. [g \in Group |-> IF First(g) THEN kNoChannel ELSE r.groupToChannel[g]] = groups
      BY <1>7
    <3>2. gone = [left EXCEPT !.freeChannels = Append(r.freeChannels, c),
                              !.groupToChannel = groups]
      BY <1>4, <1>6, <1>8, <2>2, <3>1
    <3>3. groups \in [Group -> Channel \cup {kNoChannel}]  BY <1>0
    <3>4. Append(r.freeChannels, c) \in Seq(Channel)  BY <1>0, <1>1
    <3> HIDE DEF groups
    <3>5. gone \in Registry  BY <1>5, <3>2, <3>3, <3>4 DEF Registry
    <3>6. /\ gone.freeChannels = Append(r.freeChannels, c) /\ gone.groupToChannel = groups
          /\ gone.nextToken = left.nextToken /\ gone.freeTokens = left.freeTokens
          /\ gone.tokenUsed = left.tokenUsed /\ gone.tokenToChannel = left.tokenToChannel
          /\ gone.channelMode = left.channelMode
          /\ gone.channelRefCount = left.channelRefCount
      BY <1>5, <3>2 DEF Registry
    <3> QED  BY <1>4, <2>2, <3>5, <3>6 DEF groups
  <2> QED  BY <2>1, <2>2
<1>10. q = [gone EXCEPT !.tokenUsed[t] = FALSE, !.freeTokens = Append(@, t)]
  BY DEF Release
<1> HIDE DEF gone
<1>11. /\ q.tokenUsed = [r.tokenUsed EXCEPT ![t] = FALSE]
       /\ q.freeTokens = Append(r.freeTokens, t)
       /\ q.nextToken = gone.nextToken /\ q.tokenToChannel = gone.tokenToChannel
       /\ q.freeChannels = gone.freeChannels /\ q.channelRefCount = gone.channelRefCount
       /\ q.channelMode = gone.channelMode /\ q.groupToChannel = gone.groupToChannel
  BY <1>9, <1>10 DEF Registry
<1>12. q \in Registry
  <2>1. [r.tokenUsed EXCEPT ![t] = FALSE] \in [Token -> BOOLEAN]
        /\ Append(r.freeTokens, t) \in Seq(Token)
    BY <1>0
  <2>2. q = [gone EXCEPT !.tokenUsed = [r.tokenUsed EXCEPT ![t] = FALSE],
                         !.freeTokens = Append(r.freeTokens, t)]
    BY <1>9, <1>10
  <2> QED  BY <1>9, <2>1, <2>2 DEF Registry
<1> QED  BY <1>1, <1>2, <1>3, <1>9, <1>11, <1>12 DEF Releases

\* release leaves the registry sound; an exception changes nothing.
LEMMA ReleaseSound ==
    ASSUME NEW r, Sound(r), NEW t \in Token
    PROVE  Sound(Release(r, t))
<1>1. CASE ~Releasable(r, t)  BY <1>1 DEF Release
<1>2. CASE Releasable(r, t)
  <2> DEFINE q == Release(r, t)
             c == r.tokenToChannel[t]
  <2>0. /\ r \in Registry /\ r.tokenUsed \in [Token -> BOOLEAN]
        /\ r.tokenToChannel \in [Token -> Channel] /\ r.channelRefCount \in [Channel -> Nat]
        /\ r.freeTokens \in Seq(Token) /\ r.freeChannels \in Seq(Channel)
        /\ r.groupToChannel \in [Group -> Channel \cup {kNoChannel}]
        /\ r.nextToken \in 0..kMaxBindings
    BY Fields DEF Sound
  <2>1. /\ c \in Channel /\ r.channelRefCount[c] > 0 /\ ~Holds(r.freeTokens, t)
        /\ q \in Registry
        /\ q.nextToken = r.nextToken /\ q.freeTokens = Append(r.freeTokens, t)
        /\ q.tokenUsed = [r.tokenUsed EXCEPT ![t] = FALSE]
        /\ q.tokenToChannel = r.tokenToChannel /\ q.channelMode = r.channelMode
        /\ q.channelRefCount = [r.channelRefCount EXCEPT ![c] = @ - 1]
        /\ q.freeChannels = IF r.channelRefCount[c] = 1 THEN Append(r.freeChannels, c)
                            ELSE r.freeChannels
        /\ q.groupToChannel =
             IF r.channelRefCount[c] = 1
             THEN [g \in Group |-> IF r.groupToChannel[g] = c THEN kNoChannel
                                   ELSE r.groupToChannel[g]]
             ELSE r.groupToChannel
    <3>1. Releases(r, t, c, q)  BY <1>2, ReleaseFields
    <3> QED  BY <3>1 DEF Releases
  <2>2. /\ \A x \in Token : r.tokenUsed[x] => x < r.nextToken
        /\ \A x \in Token : x < r.nextToken /\ ~r.tokenUsed[x] <=> Holds(r.freeTokens, x)
        /\ Distinct(r.freeTokens)
        /\ \A d \in Channel : r.channelRefCount[d] = 0 <=> Holds(r.freeChannels, d)
        /\ Distinct(r.freeChannels)
        /\ r.tokenUsed[t]
    BY <1>2, <2>0, StacksOf DEF Sound, Releasable
  <2>3. \A d \in Channel : q.channelRefCount[d] = IF d = c THEN r.channelRefCount[c] - 1
                                                  ELSE r.channelRefCount[d]
    BY <2>0, <2>1
  <2> HIDE DEF q, c
  <2>4. TokensAccounted(q)
    <3>1. /\ Distinct(q.freeTokens)
          /\ \A x : Holds(q.freeTokens, x) <=> Holds(r.freeTokens, x) \/ x = t
      BY <2>0, <2>1, <2>2, StackPush
    <3>2. \A x \in Token : q.tokenUsed[x] <=> r.tokenUsed[x] /\ x # t  BY <2>0, <2>1
    <3>3. \A x \in Token : q.tokenUsed[x] => x < q.nextToken  BY <2>1, <2>2, <3>2
    <3>4. t < r.nextToken  BY <2>2
    <3>5. \A x \in Token : x < q.nextToken /\ ~q.tokenUsed[x] <=> Holds(q.freeTokens, x)
      <4> SUFFICES ASSUME NEW x \in Token
                   PROVE  x < q.nextToken /\ ~q.tokenUsed[x] <=> Holds(q.freeTokens, x)
        OBVIOUS
      <4>0. q.nextToken = r.nextToken  BY <2>1
      <4>1. CASE x = t  BY <4>0, <4>1, <3>1, <3>2, <3>4, Zenon
      <4>2. CASE x # t  BY <4>0, <4>2, <2>2, <3>1, <3>2, Zenon
      <4> QED  BY <4>1, <4>2
    <3> QED  BY <2>1, <3>1, <3>3, <3>5, StacksOf
  <2>5. ChannelsAccounted(q)
    <3>1. CASE r.channelRefCount[c] = 1
      <4>1. ~Holds(r.freeChannels, c)  BY <2>1, <2>2
      <4>2. /\ Distinct(q.freeChannels)
            /\ \A d : Holds(q.freeChannels, d) <=> Holds(r.freeChannels, d) \/ d = c
        BY <2>0, <2>1, <2>2, <3>1, <4>1, StackPush
      <4>3. \A d \in Channel : q.channelRefCount[d] = 0 <=> Holds(q.freeChannels, d)
        <5>1. q.channelRefCount[c] = 0  BY <2>1, <2>3, <3>1
        <5>2. \A d \in Channel : d # c => q.channelRefCount[d] = r.channelRefCount[d]  BY <2>3
        <5> QED  BY <2>2, <4>2, <5>1, <5>2
      <4>4. q \in Registry  BY <2>1, Zenon
      <4> QED  BY <4>2, <4>3, <4>4, StacksOf, Zenon
    <3>2. CASE r.channelRefCount[c] # 1
      <4>1. q.freeChannels = r.freeChannels  BY <2>1, <3>2
      <4>2. q.channelRefCount[c] # 0 /\ r.channelRefCount[c] # 0
        BY <2>0, <2>1, <2>3, <3>2
      <4>3. \A d \in Channel : q.channelRefCount[d] = 0 <=> Holds(q.freeChannels, d)
        <5>1. \A d \in Channel : d # c => q.channelRefCount[d] = r.channelRefCount[d]  BY <2>3
        <5> QED  BY <2>2, <4>1, <4>2, <5>1, Zenon
      <4>4. q \in Registry /\ Distinct(q.freeChannels)  BY <2>1, <2>2, <4>1, Zenon
      <4> QED  BY <4>3, <4>4, StacksOf, Zenon
    <3> QED  BY <3>1, <3>2
  <2>6. UsersCounted(q)
    <3>1. UsersOf(q, c) = UsersOf(r, c) \ {t} /\ t \in UsersOf(r, c)
      BY <2>0, <2>1, <2>2 DEF UsersOf, c
    <3>2. \A d \in Channel : d # c => UsersOf(q, d) = UsersOf(r, d)
      BY <2>0, <2>1, <2>2 DEF UsersOf, c
    <3>3. Cardinality(UsersOf(q, c)) = Cardinality(UsersOf(r, c)) - 1
      BY <3>1, UsersFinite, FS_RemoveElement
    <3>4. Cardinality(UsersOf(r, c)) \in Nat /\ r.channelRefCount[c] \in Nat
          /\ Cardinality(UsersOf(r, c)) <= r.channelRefCount[c]
      BY <2>0, <2>1, UsersFinite DEF Sound, UsersCounted
    <3>5. Cardinality(UsersOf(q, c)) <= q.channelRefCount[c]
      BY <2>1, <2>3, <3>3, <3>4
    <3>6. \A d \in Channel : d # c => Cardinality(UsersOf(q, d)) <= q.channelRefCount[d]
      BY <2>3, <3>2 DEF Sound, UsersCounted
    <3> QED  BY <3>5, <3>6 DEF UsersCounted
  <2>7. GroupsSound(q)
    <3>1. \A g \in Group : r.groupToChannel[g] # kNoChannel =>
              /\ r.groupToChannel[g] \in Channel
              /\ r.channelRefCount[r.groupToChannel[g]] > 0
              /\ r.channelMode[r.groupToChannel[g]] = Shared
              /\ \A h \in Group : r.groupToChannel[h] = r.groupToChannel[g] => h = g
      BY <2>0 DEF Sound, GroupsSound
    <3>2. CASE r.channelRefCount[c] = 1
      <4>1. \A g \in Group : q.groupToChannel[g] =
                IF r.groupToChannel[g] = c THEN kNoChannel ELSE r.groupToChannel[g]
        BY <2>1, <3>2
      <4> QED  BY <2>1, <2>3, <3>1, <4>1 DEF GroupsSound
    <3>3. CASE r.channelRefCount[c] # 1
      <4>1. q.groupToChannel = r.groupToChannel /\ q.channelMode = r.channelMode
        BY <2>1, <3>3
      <4>2. \A d \in Channel : r.channelRefCount[d] > 0 => q.channelRefCount[d] > 0
        BY <2>0, <2>1, <2>3, <3>3
      <4> QED  BY <3>1, <4>1, <4>2 DEF GroupsSound
    <3> QED  BY <3>2, <3>3
  <2> QED  BY <2>1, <2>4, <2>5, <2>6, <2>7 DEF Sound, q
<1> QED  BY <1>1, <1>2

-----------------------------------------------------------------------------
(* What a token was acquired for *)

\* The token is in use on its group's channel, or alone on one of no group.
Serves(r, t, p) ==
    /\ r.tokenUsed[t]
    /\ p \in Group => r.groupToChannel[p] = r.tokenToChannel[t]
    /\ p = Exclusive =>
          /\ \A g \in Group : r.groupToChannel[g] # r.tokenToChannel[t]
          /\ UsersOf(r, r.tokenToChannel[t]) = {t}

\* A call of acquire takes nothing from a token in use.
LEMMA AcquireServes ==
    ASSUME NEW r, Sound(r), NEW p \in Purpose, NEW t \in Token, NEW o \in Purpose,
           Serves(r, t, o)
    PROVE  Serves(Acquire(r, p), t, o)
<1>0. /\ r \in Registry /\ r.tokenUsed \in [Token -> BOOLEAN]
      /\ r.tokenToChannel \in [Token -> Channel]
      /\ r.groupToChannel \in [Group -> Channel \cup {kNoChannel}]
  BY Fields DEF Sound
<1>1. CASE ~ChannelLeft(r, p)  BY <1>1 DEF Acquire
<1>2. CASE ChannelLeft(r, p)
  <2> DEFINE m == TakeChannel(r, p)
             c == ChannelFor(r, p)
             d == r.tokenToChannel[t]
  <2>0. d \in Channel /\ r.tokenUsed[t] /\ t \in UsersOf(r, d)  BY <1>0 DEF Serves, UsersOf
  <2>1. /\ c \in Channel
        /\ Joins(r, p) => p \in Group /\ r.groupToChannel[p] = c
        /\ ~Joins(r, p) =>
              /\ Pop(r.freeChannels) \in Seq(Channel)
              /\ UsersOf(r, c) = {}
              /\ \A g \in Group : r.groupToChannel[g] # c
              /\ p \in Group => r.groupToChannel[p] = kNoChannel
    BY <1>2, Chosen
  <2>2. /\ m.tokenUsed = r.tokenUsed /\ m.tokenToChannel = r.tokenToChannel
        /\ m.groupToChannel = IF Joins(r, p) THEN r.groupToChannel
                              ELSE [g \in Group |-> IF g = p THEN c ELSE r.groupToChannel[g]]
    <3>1. Takes(r, p, c, m)  BY <1>0, <1>2, <2>1, TakeFields
    <3> QED  BY <3>1 DEF Takes
  <2>3. Sound(m)  BY <1>2, TakeSound
  <2>4. ~Joins(r, p) => d # c  BY <2>0, <2>1
  <2>5. o \in Group => m.groupToChannel[o] = d
    <3>1. o \in Group => r.groupToChannel[o] = d /\ d # kNoChannel
      BY <2>0 DEF Serves, Channel
    <3> QED  BY <2>1, <2>2, <3>1
  <2>6. o = Exclusive => \A g \in Group : m.groupToChannel[g] # d
    BY <2>1, <2>2, <2>4 DEF Serves
  <2>7. \A e : UsersOf(m, e) = UsersOf(r, e)  BY <2>2 DEF UsersOf
  <2>8. Serves(m, t, o)  BY <2>0, <2>2, <2>5, <2>6, <2>7 DEF Serves
  <2>9. o = Exclusive => d # c
    BY <2>1, <2>4 DEF Serves
  <2> HIDE DEF m, c
  <2>10. CASE ~TokensLeft(m)  BY <1>2, <2>8, <2>10 DEF Acquire, AllocateToken, m
  <2>11. CASE TokensLeft(m)
    <3> DEFINE q == AllocateToken(m, c)
               x == FreshToken(m)
    <3>1. q = Acquire(r, p)  BY <1>2 DEF Acquire, m, c
    <3>2. /\ q.tokenUsed = [m.tokenUsed EXCEPT ![x] = TRUE]
          /\ q.tokenToChannel = [m.tokenToChannel EXCEPT ![x] = c]
          /\ q.groupToChannel = m.groupToChannel
      <4>1. Allocates(m, c, x, q)  BY <2>1, <2>3, <2>11, AllocateFields
      <4> HIDE DEF q, x
      <4> QED  BY <4>1 DEF Allocates
    <3>3. x \in Token /\ ~m.tokenUsed[x]  BY <2>3, <2>11, Fresh
    <3> HIDE DEF q, x
    <3>4. q.tokenUsed[t] /\ q.tokenToChannel[t] = d
      BY <1>0, <2>0, <2>2, <3>2, <3>3
    <3>5. o = Exclusive => UsersOf(q, d) = UsersOf(m, d)
      <4> SUFFICES ASSUME o = Exclusive PROVE UsersOf(q, d) = UsersOf(m, d)  OBVIOUS
      <4>1. \A y \in Token : q.tokenUsed[y] /\ q.tokenToChannel[y] = d
                                <=> m.tokenUsed[y] /\ m.tokenToChannel[y] = d
        BY <1>0, <2>2, <2>9, <3>2, <3>3
      <4> QED  BY <4>1 DEF UsersOf
    <3>6. m.tokenToChannel[t] = d  BY <2>2
    <3> QED  BY <2>8, <3>1, <3>2, <3>4, <3>5, <3>6 DEF Serves
  <2> QED  BY <2>10, <2>11
<1> QED  BY <1>1, <1>2

\* The token that acquire returns serves what it was called for.
LEMMA AcquireGives ==
    ASSUME NEW r, Sound(r), NEW p \in Purpose, Grants(r, p),
           NEW x, x = FreshToken(r), NEW q, q = Acquire(r, p)
    PROVE  /\ x \in Token /\ ~r.tokenUsed[x]
           /\ q.tokenUsed = [r.tokenUsed EXCEPT ![x] = TRUE]
           /\ Serves(q, x, p)
<1> DEFINE m == TakeChannel(r, p)
           c == ChannelFor(r, p)
<1>0. /\ r \in Registry /\ r.tokenUsed \in [Token -> BOOLEAN]
      /\ r.tokenToChannel \in [Token -> Channel]
      /\ r.groupToChannel \in [Group -> Channel \cup {kNoChannel}]
      /\ ChannelLeft(r, p) /\ TokensLeft(r)
  BY Fields DEF Sound, Grants
<1>1. /\ c \in Channel
      /\ Joins(r, p) => p \in Group /\ r.groupToChannel[p] = c
      /\ ~Joins(r, p) =>
            /\ Pop(r.freeChannels) \in Seq(Channel)
            /\ UsersOf(r, c) = {}
            /\ \A g \in Group : r.groupToChannel[g] # c
  BY <1>0, Chosen
<1>2. /\ m.tokenUsed = r.tokenUsed /\ m.tokenToChannel = r.tokenToChannel
      /\ m.freeTokens = r.freeTokens /\ m.nextToken = r.nextToken
      /\ m.groupToChannel = IF Joins(r, p) THEN r.groupToChannel
                            ELSE [g \in Group |-> IF g = p THEN c ELSE r.groupToChannel[g]]
  <2>1. Takes(r, p, c, m)  BY <1>0, <1>1, TakeFields
  <2> QED  BY <2>1 DEF Takes
<1>3. Sound(m)  BY <1>0, TakeSound
<1>4. q = AllocateToken(m, c)  BY <1>0 DEF Acquire
<1> HIDE DEF m, c
<1>5. x = FreshToken(m) /\ TokensLeft(m)  BY <1>0, <1>2 DEF FreshToken, TokensLeft
<1>6. /\ q.tokenUsed = [r.tokenUsed EXCEPT ![x] = TRUE]
      /\ q.tokenToChannel = [r.tokenToChannel EXCEPT ![x] = c]
      /\ q.groupToChannel = m.groupToChannel
  <2>1. Allocates(m, c, x, q)  BY <1>1, <1>3, <1>4, <1>5, AllocateFields
  <2> QED  BY <1>2, <2>1 DEF Allocates
<1>7. x \in Token /\ ~r.tokenUsed[x]  BY <1>2, <1>3, <1>5, Fresh
<1>8. q.tokenUsed[x] /\ q.tokenToChannel[x] = c  BY <1>0, <1>6, <1>7
<1>9. p \in Group => q.groupToChannel[p] = c  BY <1>1, <1>2, <1>6
<1>10. ASSUME p = Exclusive
       PROVE  (\A g \in Group : q.groupToChannel[g] # c) /\ UsersOf(q, c) = {x}
  <2>1. p \notin Group  BY <1>10 DEF Group
  <2>2. ~Joins(r, p)  BY <2>1 DEF Joins
  <2>3. \A g \in Group : q.groupToChannel[g] # c  BY <1>1, <1>2, <1>6, <2>1, <2>2
  <2>4. \A y \in Token : q.tokenUsed[y] /\ q.tokenToChannel[y] = c
                            <=> y = x \/ (r.tokenUsed[y] /\ r.tokenToChannel[y] = c)
    BY <1>0, <1>6, <1>7, <1>8
  <2>5. UsersOf(r, c) = {}  BY <1>1, <2>2
  <2>6. UsersOf(q, c) = {x}  BY <1>7, <2>4, <2>5 DEF UsersOf
  <2> QED  BY <2>3, <2>6
<1> QED  BY <1>6, <1>7, <1>8, <1>9, <1>10 DEF Serves

\* A call of release takes nothing from the other tokens.
LEMMA ReleaseServes ==
    ASSUME NEW r, Sound(r), NEW x \in Token, NEW t \in Token, t # x,
           NEW o \in Purpose, Serves(r, t, o)
    PROVE  Serves(Release(r, x), t, o)
<1>1. CASE ~Releasable(r, x)  BY <1>1 DEF Release
<1>2. CASE Releasable(r, x)
  <2> DEFINE q == Release(r, x)
             c == r.tokenToChannel[x]
             d == r.tokenToChannel[t]
  <2>0. /\ r \in Registry /\ r.tokenUsed \in [Token -> BOOLEAN]
        /\ r.tokenToChannel \in [Token -> Channel] /\ r.channelRefCount \in [Channel -> Nat]
        /\ r.groupToChannel \in [Group -> Channel \cup {kNoChannel}]
        /\ r.tokenUsed[x] /\ r.tokenUsed[t]
    BY <1>2, Fields DEF Sound, Releasable, Serves
  <2>1. /\ c \in Channel /\ r.channelRefCount[c] > 0
        /\ q.tokenUsed = [r.tokenUsed EXCEPT ![x] = FALSE]
        /\ q.tokenToChannel = r.tokenToChannel
        /\ q.groupToChannel =
             IF r.channelRefCount[c] = 1
             THEN [g \in Group |-> IF r.groupToChannel[g] = c THEN kNoChannel
                                   ELSE r.groupToChannel[g]]
             ELSE r.groupToChannel
    <3>1. Releases(r, x, c, q)  BY <1>2, ReleaseFields
    <3> QED  BY <3>1 DEF Releases
  <2>2. d \in Channel /\ d # kNoChannel  BY <2>0 DEF Channel
  <2>3. r.channelRefCount[c] = 1 => d # c
    <3> SUFFICES ASSUME r.channelRefCount[c] = 1, d = c PROVE FALSE  OBVIOUS
    <3>1. t \in UsersOf(r, c) /\ x \in UsersOf(r, c)  BY <2>0 DEF UsersOf
    <3>2. Cardinality(UsersOf(r, c)) <= 1  BY <2>1 DEF Sound, UsersCounted
    <3>3. IsFiniteSet(UsersOf(r, c)) /\ Cardinality(UsersOf(r, c)) \in Nat  BY UsersFinite
    <3>4. Cardinality(UsersOf(r, c) \ {x}) = Cardinality(UsersOf(r, c)) - 1
          /\ IsFiniteSet(UsersOf(r, c) \ {x})
      BY <3>1, <3>3, FS_RemoveElement
    <3>5. Cardinality(UsersOf(r, c) \ {x}) \in Nat  BY <3>4, FS_CardinalityType
    <3>6. Cardinality(UsersOf(r, c) \ {x}) = 0  BY <3>2, <3>3, <3>4, <3>5
    <3>7. UsersOf(r, c) \ {x} = {}  BY <3>4, <3>6, FS_EmptySet
    <3> QED  BY <3>1, <3>7
  <2> HIDE DEF q
  <2>4. q.tokenUsed[t] /\ q.tokenToChannel[t] = d  BY <2>0, <2>1
  <2>5. \A g \in Group : r.groupToChannel[g] = d => q.groupToChannel[g] = d
    BY <2>1, <2>3
  <2>6. \A g \in Group : r.groupToChannel[g] # d => q.groupToChannel[g] # d
    BY <2>1, <2>2
  <2>7. o = Exclusive => UsersOf(q, d) = {t}
    <3>1. \A y \in Token : q.tokenUsed[y] <=> r.tokenUsed[y] /\ y # x  BY <2>0, <2>1
    <3>2. UsersOf(q, d) = UsersOf(r, d) \ {x}  BY <2>1, <3>1 DEF UsersOf
    <3> QED  BY <3>2 DEF Serves
  <2> QED  BY <2>4, <2>5, <2>6, <2>7 DEF Serves, q
<1> QED  BY <1>1, <1>2

-----------------------------------------------------------------------------
(* The handles *)

\* A token in use can be given back: the free stack has room for it.
LEMMA UsedIsReleasable ==
    ASSUME NEW r, Sound(r), NEW t \in Token, r.tokenUsed[t]
    PROVE  Releasable(r, t)
<1>0. /\ r \in Registry /\ r.freeTokens \in Seq(Token) /\ r.nextToken \in 0..kMaxBindings
      /\ t < r.nextToken /\ Distinct(r.freeTokens)
      /\ \A x \in Token : Holds(r.freeTokens, x) => ~r.tokenUsed[x]
  BY Fields, StacksOf DEF Sound
<1>1. t \in 0..r.nextToken - 1  BY <1>0 DEF Token
<1>2. \A x : Holds(r.freeTokens, x) => x \in Token \ {t}
  <2>1. \A x : Holds(r.freeTokens, x) => x \in Token  BY <1>0 DEF Holds
  <2> QED  BY <1>0, <2>1
<1>3. IsFiniteSet(Token) /\ Cardinality(Token) = kMaxBindings
  <2>1. 0 \in Int /\ kMaxBindings - 1 \in Int /\ ~(0 > kMaxBindings - 1)  OBVIOUS
  <2>2. IsFiniteSet(Token)  BY <2>1, FS_Interval DEF Token
  <2>3. Cardinality(Token) = (kMaxBindings - 1) - 0 + 1  BY <2>1, FS_Interval DEF Token
  <2> QED  BY <2>2, <2>3
<1>4. IsFiniteSet(Token \ {t}) /\ Cardinality(Token \ {t}) = kMaxBindings - 1
  BY <1>3, FS_RemoveElement
<1>5. Len(r.freeTokens) <= kMaxBindings - 1  BY <1>0, <1>2, <1>4, StackFits
<1>6. Len(r.freeTokens) \in Nat  BY <1>0
<1> QED  BY <1>1, <1>5, <1>6 DEF Releasable

Owned ==
    /\ \A h, o \in Handle : valid(h) /\ valid(o) /\ token_[h] = token_[o] => h = o
    /\ \A t \in Token : registry.tokenUsed[t] => \E h \in Handle : valid(h) /\ token_[h] = t

\* The token of each handle is in use for what the handle asked for.
Serving == \A h \in Handle : valid(h) => Serves(registry, token_[h], purpose[h])

Inv == TypeOK /\ Sound(registry) /\ Owned /\ Serving

\* What a handle's release leaves to the others.
Left(h, r) ==
    /\ Sound(r)
    /\ \A t \in Token : r.tokenUsed[t] <=> registry.tokenUsed[t] /\ ~(valid(h) /\ t = token_[h])
    /\ \A o \in Handle : o # h /\ valid(o) => Serves(r, token_[o], purpose[o])

\* The release of a handle gives back its token, and nothing of the others'.
LEMMA AfterReleaseLeft ==
    ASSUME Inv, NEW h \in Handle
    PROVE  Left(h, AfterRelease(h))
<1>1. CASE ~valid(h)  BY <1>1 DEF AfterRelease, Left, Inv, Serving
<1>2. CASE valid(h)
  <2> DEFINE t == token_[h]
             r == Release(registry, t)
  <2>1. t \in Token /\ registry.tokenUsed[t] /\ AfterRelease(h) = r
    BY <1>2 DEF Inv, TypeOK, valid, Serving, Serves, AfterRelease
  <2>2. Sound(r)  BY <2>1, ReleaseSound DEF Inv
  <2>3. \A x \in Token : r.tokenUsed[x] <=> registry.tokenUsed[x] /\ x # t
    <3>1. Releases(registry, t, registry.tokenToChannel[t], r)
      BY <2>1, UsedIsReleasable, ReleaseFields DEF Inv
    <3>2. registry.tokenUsed \in [Token -> BOOLEAN]  BY Fields DEF Inv, TypeOK
    <3>3. r.tokenUsed = [registry.tokenUsed EXCEPT ![t] = FALSE]  BY <3>1 DEF Releases
    <3> HIDE DEF r, t
    <3> QED  BY <2>1, <3>2, <3>3
  <2>4. ASSUME NEW o \in Handle, o # h, valid(o)
        PROVE  Serves(r, token_[o], purpose[o])
    <3>1. token_[o] \in Token /\ token_[o] # t /\ purpose[o] \in Purpose
          /\ Serves(registry, token_[o], purpose[o])
      BY <1>2, <2>4 DEF Inv, TypeOK, valid, Owned, Serving
    <3> QED  BY <2>1, <3>1, ReleaseServes DEF Inv
  <2> HIDE DEF r
  <2> QED  BY <1>2, <2>1, <2>2, <2>3, <2>4 DEF Left
<1> QED  BY <1>1, <1>2

\* No handle exists, and no token is in use.
LEMMA InvInit == Init => Inv
<1> SUFFICES ASSUME Init PROVE Inv  OBVIOUS
<1> USE DEF Init, NewRegistry
<1> DEFINE r == registry
<1>1. \A h \in Handle : ~valid(h)  BY DEF valid
<1>2. r \in Registry
  <2>1. [i \in 1..kMaxChannels |-> i - 1] \in Seq(Channel)
    <3>1. \A i \in 1..kMaxChannels : i - 1 \in Channel  BY DEF Channel
    <3> QED  BY <3>1
  <2>2. <<>> \in Seq(Token) /\ 0 \in 0..kMaxBindings /\ 0 \in Channel  BY DEF Channel
  <2> QED  BY <2>1, <2>2 DEF Registry
<1>3. TypeOK  BY <1>2 DEF TypeOK, Purpose
<1>4. TokensAccounted(r)
  <2>1. r.freeTokens = <<>> /\ r.nextToken = 0 /\ \A t \in Token : ~r.tokenUsed[t]  OBVIOUS
  <2>2. \A t \in Token : ~(t < 0)  BY DEF Token
  <2> QED  BY <2>1, <2>2 DEF TokensAccounted
<1>5. ChannelsAccounted(r)
  <2>1. /\ Len(r.freeChannels) = kMaxChannels
        /\ \A i \in 1..kMaxChannels : r.freeChannels[i] = i - 1
        /\ \A c \in Channel : r.channelRefCount[c] = 0
    OBVIOUS
  <2>2. \A c \in Channel : c + 1 \in 1..kMaxChannels /\ (c + 1) - 1 = c  BY DEF Channel
  <2>3. \A c \in Channel : \E i \in 1..kMaxChannels : r.freeChannels[i] = c
    BY <2>1, <2>2
  <2>4. \A i, j \in 1..kMaxChannels : r.freeChannels[i] = r.freeChannels[j] => i = j
    BY <2>1
  <2> QED  BY <2>1, <2>3, <2>4 DEF ChannelsAccounted
<1>6. UsersCounted(r)
  <2>1. \A c \in Channel : UsersOf(r, c) = {} /\ r.channelRefCount[c] = 0  BY DEF UsersOf
  <2>2. \A c \in Channel : Cardinality(UsersOf(r, c)) = 0  BY <2>1, FS_EmptySet
  <2> HIDE DEF r
  <2> QED  BY <2>1, <2>2 DEF UsersCounted
<1>7. GroupsSound(r)  BY DEF GroupsSound
<1>8. Owned  BY <1>1 DEF Owned
<1>9. Serving  BY <1>1 DEF Serving
<1> QED  BY <1>2, <1>3, <1>4, <1>5, <1>6, <1>7, <1>8, <1>9 DEF Inv, Sound

\* acquire that throws puts no token into use.
LEMMA AcquireThrows ==
    ASSUME NEW r, Sound(r), NEW p \in Purpose, ~Grants(r, p)
    PROVE  Acquire(r, p).tokenUsed = r.tokenUsed
<1>1. CASE ~ChannelLeft(r, p)  BY <1>1 DEF Acquire
<1>2. CASE ChannelLeft(r, p)
  <2> DEFINE m == TakeChannel(r, p)
             c == ChannelFor(r, p)
  <2>1. /\ c \in Channel /\ r \in Registry
        /\ Joins(r, p) \/ Pop(r.freeChannels) \in Seq(Channel)
    BY <1>2, Chosen DEF Sound
  <2>2. Takes(r, p, c, m)  BY <1>2, <2>1, TakeFields
  <2>3. Acquire(r, p) = AllocateToken(m, c)  BY <1>2 DEF Acquire
  <2> HIDE DEF m, c
  <2>4. m.tokenUsed = r.tokenUsed /\ m.freeTokens = r.freeTokens /\ m.nextToken = r.nextToken
    BY <2>2 DEF Takes
  <2>5. ~TokensLeft(m)  BY <1>2, <2>4 DEF Grants, TokensLeft
  <2> QED  BY <2>3, <2>4, <2>5 DEF AllocateToken
<1> QED  BY <1>1, <1>2

\* The handles other than h, and h without a token.
OthersSame(h) ==
    \A o \in Handle : o # h =>
        /\ valid(o)' <=> valid(o)
        /\ token_'[o] = token_[o] /\ purpose'[o] = purpose[o]

\* A handle gives back its token, if it had one, and has none.
LEMMA ReleaseInv ==
    ASSUME Inv, TypeOK', NEW h \in Handle, registry' = AfterRelease(h),
           OthersSame(h), ~valid(h)'
    PROVE  Inv'
<1>1. Left(h, registry')  BY AfterReleaseLeft
<1>2. Sound(registry')  BY <1>1 DEF Left
<1>3. \A o \in Handle : valid(o)' <=> o # h /\ valid(o)  BY DEF OthersSame
<1>4. Owned'
  <2>1. \A a, b \in Handle : valid(a)' /\ valid(b)' /\ token_'[a] = token_'[b] => a = b
    BY <1>3 DEF OthersSame, Inv, Owned
  <2>2. ASSUME NEW t \in Token, registry'.tokenUsed[t]
        PROVE  \E o \in Handle : valid(o)' /\ token_'[o] = t
    <3>1. PICK o \in Handle : valid(o) /\ token_[o] = t
      BY <1>1, <2>2 DEF Left, Inv, Owned
    <3>2. o # h  BY <1>1, <2>2, <3>1 DEF Left
    <3> QED  BY <1>3, <3>1, <3>2 DEF OthersSame
  <2> QED  BY <2>1, <2>2 DEF Owned
<1>5. Serving'
  BY <1>1, <1>3 DEF Left, OthersSame, Serving
<1> QED  BY <1>2, <1>4, <1>5 DEF Inv

\* A handle gives back its token, if it had one, and asks for one for p.
LEMMA AcquireInv ==
    ASSUME Inv, TypeOK', NEW h \in Handle, NEW p \in Purpose, NEW r, r = AfterRelease(h),
           registry' = Acquire(r, p), OthersSame(h),
           Grants(r, p) => h \in attached' /\ token_'[h] = FreshToken(r) /\ purpose'[h] = p,
           ~Grants(r, p) => ~valid(h)'
    PROVE  Inv'
<1> DEFINE q == Acquire(r, p)
           x == FreshToken(r)
<1>1. Left(h, r)  BY AfterReleaseLeft
<1>2. Sound(r)  BY <1>1 DEF Left
<1>3. Sound(q)  BY <1>2, AcquireSound
<1>4. \A o \in Handle : o # h /\ valid(o) =>
          token_[o] \in Token /\ purpose[o] \in Purpose /\ r.tokenUsed[token_[o]]
          /\ Serves(q, token_[o], purpose[o])
  <2> SUFFICES ASSUME NEW o \in Handle, o # h, valid(o)
               PROVE  token_[o] \in Token /\ purpose[o] \in Purpose /\ r.tokenUsed[token_[o]]
                      /\ Serves(q, token_[o], purpose[o])
      OBVIOUS
  <2>1. token_[o] \in Token /\ purpose[o] \in Purpose  BY DEF Inv, TypeOK, valid
  <2>2. Serves(r, token_[o], purpose[o])  BY <1>1 DEF Left
  <2>3. Serves(q, token_[o], purpose[o])  BY <1>2, <2>1, <2>2, AcquireServes
  <2> QED  BY <2>1, <2>2, <2>3 DEF Serves
<1>5. \A t \in Token : r.tokenUsed[t] => \E o \in Handle : o # h /\ valid(o) /\ token_[o] = t
  BY <1>1 DEF Left, Inv, Owned
<1>6. CASE Grants(r, p)
  <2>1. /\ x \in Token /\ ~r.tokenUsed[x]
        /\ q.tokenUsed = [r.tokenUsed EXCEPT ![x] = TRUE]
        /\ Serves(q, x, p)
    BY <1>2, <1>6, AcquireGives
  <2>2. r.tokenUsed \in [Token -> BOOLEAN]  BY <1>2, Fields DEF Sound
  <2> HIDE DEF q, x
  <2>3. valid(h)' /\ token_'[h] = x /\ purpose'[h] = p
    BY <1>6, <2>1 DEF valid, x, Token
  <2>4. \A t \in Token : q.tokenUsed[t] <=> t = x \/ r.tokenUsed[t]  BY <2>1, <2>2
  <2>5. Owned'
    <3>1. \A a, b \in Handle : valid(a)' /\ valid(b)' /\ token_'[a] = token_'[b] => a = b
      <4>1. \A o \in Handle : o # h /\ valid(o)' => token_'[o] # x
        BY <1>4, <2>1 DEF OthersSame
      <4> QED  BY <2>3, <4>1 DEF OthersSame, Inv, Owned
    <3>2. \A t \in Token : registry'.tokenUsed[t] =>
              \E o \in Handle : valid(o)' /\ token_'[o] = t
      BY <1>5, <2>3, <2>4 DEF OthersSame, q
    <3> QED  BY <3>1, <3>2 DEF Owned
  <2>6. Serving'
    <3>1. registry' = q  BY DEF q
    <3> QED  BY <1>4, <2>1, <2>3, <3>1 DEF OthersSame, Serving
  <2> QED  BY <1>3, <2>5, <2>6 DEF Inv, q
<1>7. CASE ~Grants(r, p)
  <2>1. q.tokenUsed = r.tokenUsed  BY <1>2, <1>7, AcquireThrows
  <2>2. registry' = q  OBVIOUS
  <2> HIDE DEF q, x
  <2>3. Owned'
    <3>1. \A a, b \in Handle : valid(a)' /\ valid(b)' /\ token_'[a] = token_'[b] => a = b
      BY <1>7 DEF OthersSame, Inv, Owned
    <3>2. \A t \in Token : registry'.tokenUsed[t] =>
              \E o \in Handle : valid(o)' /\ token_'[o] = t
      BY <1>5, <2>1, <2>2 DEF OthersSame
    <3> QED  BY <3>1, <3>2 DEF Owned
  <2>4. Serving'  BY <1>4, <1>7, <2>2 DEF OthersSame, Serving
  <2> QED  BY <1>3, <2>2, <2>3, <2>4 DEF Inv
<1> QED  BY <1>6, <1>7

\* A handle gives back its token, if it had one, and gets another handle's.
LEMMA MoveInv ==
    ASSUME Inv, TypeOK', NEW h \in Handle, NEW o \in Handle, h # o,
           registry' = AfterRelease(h), TakeOver(h, o)
    PROVE  Inv'
<1>1. Left(h, registry')  BY AfterReleaseLeft
<1>2. Sound(registry')  BY <1>1 DEF Left
<1>3. /\ valid(h)' <=> valid(o)
      /\ ~valid(o)'
      /\ token_'[h] = token_[o] /\ purpose'[h] = purpose[o]
      /\ \A a \in Handle : a # h /\ a # o =>
            /\ valid(a)' <=> valid(a)
            /\ token_'[a] = token_[a] /\ purpose'[a] = purpose[a]
  BY DEF TakeOver, Inv, TypeOK, valid
<1>4. Owned'
  <2>1. \A a, b \in Handle : valid(a)' /\ valid(b)' /\ token_'[a] = token_'[b] => a = b
    BY <1>3 DEF Inv, Owned
  <2>2. ASSUME NEW t \in Token, registry'.tokenUsed[t]
        PROVE  \E a \in Handle : valid(a)' /\ token_'[a] = t
    <3>1. PICK a \in Handle : valid(a) /\ token_[a] = t
      BY <1>1, <2>2 DEF Left, Inv, Owned
    <3>2. a # h  BY <1>1, <2>2, <3>1 DEF Left
    <3>3. CASE a = o  BY <1>3, <3>1, <3>3
    <3>4. CASE a # o  BY <1>3, <3>1, <3>2, <3>4
    <3> QED  BY <3>3, <3>4
  <2> QED  BY <2>1, <2>2 DEF Owned
<1>5. Serving'
  BY <1>1, <1>3 DEF Left, Serving
<1> QED  BY <1>2, <1>4, <1>5 DEF Inv

\* Every call of a handle keeps the invariant, on its throwing paths too.
LEMMA InvNext == Inv /\ [Next]_vars => Inv'
<1> SUFFICES ASSUME Inv, [Next]_vars PROVE Inv'  OBVIOUS
<1>1. ASSUME NEW h \in Handle, ConstructDetached(h) PROVE Inv'
  <2> USE <1>1 DEF ConstructDetached
  <2>1. TypeOK'  BY DEF Inv, TypeOK
  <2>2. ~valid(h) /\ ~valid(h)'  BY DEF Inv, TypeOK, valid
  <2>3. registry' = AfterRelease(h)  BY <2>2 DEF AfterRelease
  <2>4. OthersSame(h)  BY DEF OthersSame, Inv, TypeOK, valid
  <2> QED  BY <2>1, <2>2, <2>3, <2>4, ReleaseInv
<1>2. ASSUME NEW h \in Handle, Destroy(h) PROVE Inv'
  <2> USE <1>2 DEF Destroy
  <2>1. registry' \in Registry  BY AfterReleaseLeft DEF Left, Sound
  <2>2. TypeOK'  BY <2>1 DEF Inv, TypeOK, Purpose
  <2>3. ~valid(h)'  BY DEF valid
  <2>4. OthersSame(h)  BY DEF OthersSame, Inv, TypeOK, valid
  <2> QED  BY <2>2, <2>3, <2>4, ReleaseInv
<1>3. ASSUME NEW h \in Handle, NEW p \in Purpose, Construct(h, p) PROVE Inv'
  <2> USE <1>3 DEF Construct
  <2>1. ~valid(h)  BY DEF Inv, TypeOK, valid
  <2>2. AfterRelease(h) = registry  BY <2>1 DEF AfterRelease
  <2>3. registry' \in Registry  BY AcquireSound DEF Inv, Sound
  <2>4. Grants(registry, p) => FreshToken(registry) \in Token  BY AcquireGives DEF Inv
  <2>5. TypeOK'  BY <2>3, <2>4 DEF Inv, TypeOK
  <2>6. OthersSame(h)  BY DEF OthersSame, Inv, TypeOK, valid
  <2>7. Grants(registry, p) => h \in attached' /\ token_'[h] = FreshToken(registry)
                               /\ purpose'[h] = p
    BY DEF Inv, TypeOK
  <2>8. ~Grants(registry, p) => ~valid(h)'  BY <2>1 DEF valid
  <2> QED  BY <2>2, <2>5, <2>6, <2>7, <2>8, AcquireInv
<1>4. ASSUME NEW h \in Handle, NEW p \in Purpose, Reassign(h, p) PROVE Inv'
  <2> USE <1>4 DEF Reassign
  <2> DEFINE r == AfterRelease(h)
  <2>1. Sound(r)  BY AfterReleaseLeft DEF Left
  <2> HIDE DEF r
  <2>2. registry' = Acquire(r, p)  BY DEF r
  <2>3. registry' \in Registry  BY <2>1, <2>2, AcquireSound DEF Sound
  <2>4. Grants(r, p) => FreshToken(r) \in Token  BY <2>1, AcquireGives
  <2>5. /\ token_' = [token_ EXCEPT ![h] = IF Grants(r, p) THEN FreshToken(r) ELSE kInvalidToken]
        /\ purpose' = [purpose EXCEPT ![h] = IF Grants(r, p) THEN p ELSE Exclusive]
    BY DEF r
  <2>6. TypeOK'  BY <2>3, <2>4, <2>5 DEF Inv, TypeOK, Purpose
  <2>7. OthersSame(h)  BY <2>5 DEF OthersSame, Inv, TypeOK, valid
  <2>8. Grants(r, p) => h \in attached' /\ token_'[h] = FreshToken(r) /\ purpose'[h] = p
    BY <2>5 DEF Inv, TypeOK
  <2>9. ~Grants(r, p) => ~valid(h)'  BY <2>5 DEF Inv, TypeOK, valid
  <2> QED  BY <2>2, <2>6, <2>7, <2>8, <2>9, AcquireInv DEF r
<1>5. ASSUME NEW h \in Handle, NEW o \in Handle, MoveConstruct(h, o) PROVE Inv'
  <2> USE <1>5 DEF MoveConstruct
  <2>1. h # o /\ ~valid(h)  BY DEF Inv, TypeOK, valid
  <2>2. registry' = AfterRelease(h)  BY <2>1 DEF AfterRelease
  <2>3. TypeOK'  BY <2>1 DEF TakeOver, Inv, TypeOK, Purpose
  <2> QED  BY <2>1, <2>2, <2>3, MoveInv
<1>6. ASSUME NEW h \in Handle, NEW o \in Handle, MoveAssign(h, o) PROVE Inv'
  <2> USE <1>6 DEF MoveAssign
  <2>1. h # o  OBVIOUS
  <2>2. registry' \in Registry  BY AfterReleaseLeft DEF Left, Sound
  <2>3. TypeOK'  BY <2>1, <2>2 DEF TakeOver, Inv, TypeOK, Purpose
  <2> QED  BY <2>1, <2>3, MoveInv
<1>7. CASE UNCHANGED vars
  BY <1>7 DEF vars, Inv, TypeOK, Owned, Serving, valid
<1> QED  BY <1>1, <1>2, <1>3, <1>4, <1>5, <1>6, <1>7 DEF Next

-----------------------------------------------------------------------------
(* The theorems *)

\* The invariant behind the next four.
THEOREM InvHolds == Spec => []Inv
BY InvInit, InvNext, PTL DEF Spec

\* The registry and the handles keep their types: no stack overflows, and a handle
\* has a token of the registry or none.
THEOREM TypeCorrect == Spec => []TypeOK
<1>1. Inv => TypeOK  BY DEF Inv
<1> QED  BY <1>1, InvHolds, PTL

\* The bookkeeping of the registry, under every history of handles
\* (token_registry.hpp: allocateToken, acquire, release).
THEOREM RegistryCorrect == Spec => []RegistrySound
<1>1. Inv => RegistrySound  BY DEF Inv, Sound, RegistrySound
<1> QED  BY <1>1, InvHolds, PTL

\* Tokens in use and handles that have one are the same, one to one, and a handle's
\* release() does not throw (registration_handle.hpp:102).
THEOREM TokensCorrect == Spec => []TokensOwned
<1>1. Inv => TokensOwned
  <2> SUFFICES ASSUME Inv PROVE TokensOwned  OBVIOUS
  <2>1. ASSUME NEW h \in Handle, valid(h) PROVE Releasable(registry, token_[h])
    <3>1. token_[h] \in Token /\ registry.tokenUsed[token_[h]]
      BY <2>1 DEF Inv, TypeOK, valid, Serving, Serves
    <3> QED  BY <3>1, UsedIsReleasable DEF Inv
  <2> QED  BY <2>1 DEF TokensOwned, Inv, Owned
<1> QED  BY <1>1, InvHolds, PTL

\* Handles share a channel exactly when they asked for the same group
\* (token_registry.hpp: acquire, resolve).
THEOREM IsolationCorrect == Spec => []Isolation
<1>1. Inv => Isolation
  <2> SUFFICES ASSUME Inv, NEW h \in Handle, NEW o \in Handle, valid(h), valid(o), h # o
               PROVE  ChannelOf(h) = ChannelOf(o)
                         <=> purpose[h] = purpose[o] /\ purpose[h] \in Group
      BY DEF Isolation
  <2>1. /\ token_[h] \in Token /\ token_[o] \in Token /\ token_[h] # token_[o]
        /\ purpose[h] \in Purpose /\ purpose[o] \in Purpose
        /\ Serves(registry, token_[h], purpose[h]) /\ Serves(registry, token_[o], purpose[o])
    BY DEF Inv, TypeOK, valid, Owned, Serving
  <2>2. ChannelOf(h) \in Channel /\ ChannelOf(h) # kNoChannel
    BY <2>1, Fields DEF Inv, TypeOK, ChannelOf, Channel
  <2>3. ChannelOf(h) = ChannelOf(o) => purpose[h] # Exclusive /\ purpose[o] # Exclusive
    BY <2>1 DEF Serves, UsersOf, ChannelOf
  <2>4. ChannelOf(h) = ChannelOf(o) => purpose[h] = purpose[o] /\ purpose[h] \in Group
    BY <2>1, <2>2, <2>3 DEF Serves, ChannelOf, Purpose, Inv, Sound, GroupsSound
  <2>5. purpose[h] = purpose[o] /\ purpose[h] \in Group => ChannelOf(h) = ChannelOf(o)
    BY <2>1 DEF Serves, ChannelOf
  <2> QED  BY <2>4, <2>5
<1> QED  BY <1>1, InvHolds, PTL

-----------------------------------------------------------------------------
(* Reference counts *)

\* The channel counts its users exactly.
Exact(r, c) == r.channelRefCount[c] = Cardinality(UsersOf(r, c))

\* acquire keeps exact counts exact unless there is no token left.
LEMMA AcquireExact ==
    ASSUME NEW r, Sound(r), NEW p \in Purpose, TokensLeft(r), NEW d \in Channel, Exact(r, d)
    PROVE  Exact(Acquire(r, p), d)
<1>0. /\ r \in Registry /\ r.tokenUsed \in [Token -> BOOLEAN]
      /\ r.tokenToChannel \in [Token -> Channel] /\ r.channelRefCount \in [Channel -> Nat]
  BY Fields DEF Sound
<1>1. CASE ~ChannelLeft(r, p)  BY <1>1 DEF Acquire
<1>2. CASE ChannelLeft(r, p)
  <2> DEFINE m == TakeChannel(r, p)
             c == ChannelFor(r, p)
             q == AllocateToken(m, c)
             x == FreshToken(m)
  <2>1. /\ Joins(r, p) \/ Pop(r.freeChannels) \in Seq(Channel)
        /\ ~Joins(r, p) => r.channelRefCount[c] = 0
    BY <1>2, Chosen
  <2>2. c \in Channel  BY <1>2, Chosen
  <2>3. Takes(r, p, c, m)  BY <1>0, <1>2, <2>1, <2>2, TakeFields
  <2>4. Sound(m)  BY <1>2, TakeSound
  <2>5. Acquire(r, p) = q  BY <1>2 DEF Acquire
  <2> HIDE DEF m, c
  <2>6. /\ m.tokenUsed = r.tokenUsed /\ m.tokenToChannel = r.tokenToChannel
        /\ m.freeTokens = r.freeTokens /\ m.nextToken = r.nextToken
        /\ m.channelRefCount = [r.channelRefCount EXCEPT ![c] = IF Joins(r, p) THEN @ + 1 ELSE 1]
    BY <2>3 DEF Takes
  <2>7. TokensLeft(m)  BY <2>6 DEF TokensLeft
  <2>8. Allocates(m, c, x, q)  BY <2>2, <2>4, <2>7, AllocateFields
  <2>9. x \in Token /\ ~r.tokenUsed[x]  BY <2>4, <2>6, <2>7, Fresh
  <2> HIDE DEF q, x
  <2>10. /\ q.tokenUsed = [r.tokenUsed EXCEPT ![x] = TRUE]
         /\ q.tokenToChannel = [r.tokenToChannel EXCEPT ![x] = c]
         /\ q.channelRefCount = m.channelRefCount
    BY <2>6, <2>8 DEF Allocates
  <2>11. m.channelRefCount[c] = r.channelRefCount[c] + 1
    BY <1>0, <2>1, <2>2, <2>6
  <2>12. UsersOf(q, d) = IF d = c THEN UsersOf(r, d) \cup {x} ELSE UsersOf(r, d)
    <3>1. \A y \in Token : q.tokenUsed[y] /\ q.tokenToChannel[y] = d
            <=> (y = x /\ d = c) \/ (r.tokenUsed[y] /\ r.tokenToChannel[y] = d)
      BY <1>0, <2>9, <2>10
    <3> QED  BY <2>9, <3>1 DEF UsersOf
  <2>13. CASE d = c
    <3>1. x \notin UsersOf(r, d) /\ IsFiniteSet(UsersOf(r, d))  BY <2>9, UsersFinite DEF UsersOf
    <3>2. Cardinality(UsersOf(r, d) \cup {x}) = Cardinality(UsersOf(r, d)) + 1
      BY <3>1, FS_AddElement
    <3> QED  BY <2>5, <2>10, <2>11, <2>12, <2>13, <3>2 DEF Exact
  <2>14. CASE d # c
    <3>1. q.channelRefCount[d] = r.channelRefCount[d]  BY <1>0, <2>6, <2>10, <2>14
    <3> QED  BY <2>5, <2>12, <2>14, <3>1 DEF Exact
  <2> QED  BY <2>13, <2>14
<1> QED  BY <1>1, <1>2

\* release keeps exact counts exact, and leaves a token to acquire.
LEMMA ReleaseExact ==
    ASSUME NEW r, Sound(r), NEW t \in Token, NEW d \in Channel, Exact(r, d)
    PROVE  Exact(Release(r, t), d) /\ (TokensLeft(r) => TokensLeft(Release(r, t)))
<1>0. /\ r \in Registry /\ r.tokenUsed \in [Token -> BOOLEAN]
      /\ r.tokenToChannel \in [Token -> Channel] /\ r.channelRefCount \in [Channel -> Nat]
      /\ r.freeTokens \in Seq(Token)
  BY Fields DEF Sound
<1>1. CASE ~Releasable(r, t)  BY <1>1 DEF Release
<1>2. CASE Releasable(r, t)
  <2> DEFINE q == Release(r, t)
             c == r.tokenToChannel[t]
  <2>1. Releases(r, t, c, q)  BY <1>2, ReleaseFields
  <2>2. r.tokenUsed[t]  BY <1>2 DEF Releasable
  <2> HIDE DEF q
  <2>3. /\ q.tokenUsed = [r.tokenUsed EXCEPT ![t] = FALSE]
        /\ q.tokenToChannel = r.tokenToChannel
        /\ q.channelRefCount = [r.channelRefCount EXCEPT ![c] = @ - 1]
        /\ q.freeTokens = Append(r.freeTokens, t)
    BY <2>1 DEF Releases
  <2>4. \A y \in Token : q.tokenUsed[y] <=> r.tokenUsed[y] /\ y # t  BY <1>0, <2>3
  <2>5. UsersOf(q, d) = IF d = c THEN UsersOf(r, d) \ {t} ELSE UsersOf(r, d)
    BY <2>3, <2>4 DEF UsersOf
  <2>6. Exact(q, d)
    <3>1. CASE d = c
      <4>1. t \in UsersOf(r, d) /\ IsFiniteSet(UsersOf(r, d))
        BY <2>2, <3>1, UsersFinite DEF UsersOf
      <4>2. Cardinality(UsersOf(r, d) \ {t}) = Cardinality(UsersOf(r, d)) - 1
        BY <4>1, FS_RemoveElement
      <4>3. q.channelRefCount[d] = r.channelRefCount[d] - 1  BY <1>0, <2>3, <3>1
      <4> QED  BY <2>5, <3>1, <4>2, <4>3 DEF Exact
    <3>2. CASE d # c
      <4>1. q.channelRefCount[d] = r.channelRefCount[d]  BY <1>0, <2>3, <3>2
      <4> QED  BY <2>5, <3>2, <4>1 DEF Exact
    <3> QED  BY <3>1, <3>2
  <2>7. q.freeTokens # <<>>  BY <1>0, <2>3
  <2> QED  BY <2>6, <2>7 DEF TokensLeft, q
<1> QED  BY <1>1, <1>2

\* A count goes wrong only in a call that finds a channel and no token: allocateToken
\* throws after the channel was counted (token_registry.hpp:183).
THEOREM LeaksCorrect == Spec => LeaksOnlyWithoutTokens
<1>1. ASSUME Inv, [Next]_vars
      PROVE  [TokensLeft(registry) => Uncounted' \subseteq Uncounted]_vars
  <2> USE <1>1
  <2> SUFFICES ASSUME TokensLeft(registry), NEW d \in Channel, Exact(registry, d),
                      ~UNCHANGED vars
               PROVE  Exact(registry', d)
      BY DEF Uncounted, Exact
  <2>1. ASSUME NEW h \in Handle
        PROVE  Exact(AfterRelease(h), d) /\ TokensLeft(AfterRelease(h))
    <3>1. CASE valid(h)
      <4>1. token_[h] \in Token  BY <3>1 DEF Inv, TypeOK, valid
      <4> QED  BY <3>1, <4>1, ReleaseExact DEF AfterRelease, Inv
    <3>2. CASE ~valid(h)  BY <3>2 DEF AfterRelease
    <3> QED  BY <3>1, <3>2
  <2>2. ASSUME NEW h \in Handle, NEW p \in Purpose
        PROVE  Exact(Acquire(registry, p), d) /\ Exact(Acquire(AfterRelease(h), p), d)
    <3>1. Sound(registry) /\ Sound(AfterRelease(h))  BY AfterReleaseLeft DEF Inv, Left
    <3> QED  BY <2>1, <3>1, AcquireExact
  <2> QED  BY <2>1, <2>2 DEF Next, ConstructDetached, Destroy, Construct, Reassign,
                             MoveConstruct, MoveAssign
<1> QED  BY <1>1, InvHolds, PTL DEF Spec, LeaksOnlyWithoutTokens

=============================================================================
