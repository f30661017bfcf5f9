---------------------------- MODULE TokenRegistry ----------------------------
(***************************************************************************)
(* TokenRegistry of publisher/runtime/token_registry.hpp: it hands out     *)
(* tokens, and each token names one of a few output channels.  acquire()   *)
(* gives the token a channel of its own; acquire(group) lets it share the  *)
(* channel of its group.  A channel goes back when its last token does.    *)
(*                                                                         *)
(* The registry is one record.  An operation is an operator from the       *)
(* registry before the call to the registry after it, so that a caller     *)
(* such as RegistrationHandle::reassign can make two calls in one step;    *)
(* the throwing paths are part of it: what acquire() had already done when *)
(* it throws stays done.  The caller tells the paths apart by Grants and   *)
(* Releasable.  The stacks (array and count) are sequences, top last.      *)
(***************************************************************************)
EXTENDS Integers, Sequences, FiniteSets

CONSTANTS
    kMaxBindings,   \* 256 in the code
    kMaxChannels,   \* 4 in the code
    kMaxGroups,     \* ChannelGroup::Count, 4 in the code
    kNoChannel,     \* size_t(-1)
    kInvalidToken,  \* uint32_t(-1), beyond every token
    Exclusive,      \* the two values of ChannelMode
    Shared

ASSUME RegistryAssumption ==
    /\ kMaxBindings \in Nat \ {0}
    /\ kMaxChannels \in Nat \ {0}
    /\ kMaxGroups \in Nat \ {0}
    /\ kNoChannel \notin 0..kMaxChannels - 1
    /\ kInvalidToken \notin 0..kMaxBindings - 1
    /\ Exclusive # Shared
    /\ Exclusive \notin 0..kMaxGroups - 1

Token   == 0..kMaxBindings - 1
Channel == 0..kMaxChannels - 1
Group   == 0..kMaxGroups - 1

\* What a caller asks for: acquire() or acquire(group).
Purpose == {Exclusive} \cup Group

Registry ==
    [nextToken : 0..kMaxBindings,
     tokenToChannel : [Token -> Channel],
     tokenUsed : [Token -> BOOLEAN],
     freeTokens : Seq(Token),
     freeChannels : Seq(Channel),
     channelRefCount : [Channel -> Nat],
     channelMode : [Channel -> {Exclusive, Shared}],
     groupToChannel : [Group -> Channel \cup {kNoChannel}]]

\* The constructor; the channels are stacked with the last one on top.
NewRegistry ==
    [nextToken |-> 0,
     tokenToChannel |-> [t \in Token |-> 0],
     tokenUsed |-> [t \in Token |-> FALSE],
     freeTokens |-> <<>>,
     freeChannels |-> [i \in 1..kMaxChannels |-> i - 1],
     channelRefCount |-> [c \in Channel |-> 0],
     channelMode |-> [c \in Channel |-> Exclusive],
     groupToChannel |-> [g \in Group |-> kNoChannel]]

Top(s) == s[Len(s)]
Pop(s) == SubSeq(s, 1, Len(s) - 1)

-----------------------------------------------------------------------------
(* acquire *)

TokensLeft(r) == r.freeTokens # <<>> \/ r.nextToken < kMaxBindings

\* The token allocateToken returns.
FreshToken(r) == IF r.freeTokens # <<>> THEN Top(r.freeTokens) ELSE r.nextToken

\* Mutation of AllocateToken: the channel of the token's last life is kept.
AllocateTokenOldChannel(r, c) ==
    IF ~TokensLeft(r) THEN r
    ELSE IF r.freeTokens # <<>>
         THEN [r EXCEPT !.freeTokens = Pop(@), !.tokenUsed[FreshToken(r)] = TRUE]
         ELSE [r EXCEPT !.nextToken = @ + 1, !.tokenUsed[FreshToken(r)] = TRUE]

\* allocateToken(c); it throws when no token is left.
AllocateToken(r, c) ==
    IF ~TokensLeft(r) THEN r
    ELSE LET bound == [r EXCEPT !.tokenToChannel[FreshToken(r)] = c,
                                !.tokenUsed[FreshToken(r)] = TRUE]
         IN  IF r.freeTokens # <<>> THEN [bound EXCEPT !.freeTokens = Pop(@)]
                                    ELSE [bound EXCEPT !.nextToken = @ + 1]

\* The group has a channel with users: join it.
Joins(r, p) ==
    /\ p \in Group
    /\ r.groupToChannel[p] # kNoChannel
    /\ r.channelRefCount[r.groupToChannel[p]] > 0

ChannelFor(r, p) == IF Joins(r, p) THEN r.groupToChannel[p] ELSE Top(r.freeChannels)

\* Mutation of TakeChannel: joining a group does not count.
TakeChannelUncounted(r, p) ==
    IF Joins(r, p) THEN r
    ELSE LET c == Top(r.freeChannels)
         IN  [r EXCEPT !.freeChannels = Pop(@),
                       !.channelRefCount[c] = 1,
                       !.channelMode[c] = IF p \in Group THEN Shared ELSE Exclusive,
                       !.groupToChannel = [g \in Group |-> IF g = p THEN c ELSE @[g]]]

\* The channel is joined, or popped off the free stack, before the token.
TakeChannel(r, p) ==
    LET c == ChannelFor(r, p)
    IN  IF Joins(r, p)
        THEN [r EXCEPT !.channelRefCount[c] = @ + 1, !.channelMode[c] = Shared]
        ELSE [r EXCEPT !.freeChannels = Pop(@),
                       !.channelRefCount[c] = 1,
                       !.channelMode[c] = IF p \in Group THEN Shared ELSE Exclusive,
                       !.groupToChannel = [g \in Group |-> IF g = p THEN c ELSE @[g]]]

\* popFreeChannel throws when there is none.
ChannelLeft(r, p) == Joins(r, p) \/ r.freeChannels # <<>>

\* acquire() and acquire(group) as one: what is left of the registry.
Acquire(r, p) ==
    IF ChannelLeft(r, p) THEN AllocateToken(TakeChannel(r, p), ChannelFor(r, p)) ELSE r

\* The call returns a token, FreshToken(r); otherwise it throws.
Grants(r, p) == ChannelLeft(r, p) /\ TokensLeft(r)

-----------------------------------------------------------------------------
(* release *)

\* release() throws on a token never handed out, one that is free already,
\* and on a full stack.
Releasable(r, t) ==
    /\ t \in 0..r.nextToken - 1
    /\ r.tokenUsed[t]
    /\ Len(r.freeTokens) < kMaxBindings

\* Mutation of LeaveChannel: the group keeps pointing to its channel.
LeaveChannelKeepGroup(r, c) ==
    LET left == [r EXCEPT !.channelRefCount[c] = @ - 1]
    IN  IF left.channelRefCount[c] > 0 THEN left
        ELSE [left EXCEPT !.freeChannels = Append(@, c)]

\* Mutation of LeaveChannel: the channel goes back with each token.
LeaveChannelAlways(r, c) ==
    [r EXCEPT !.channelRefCount[c] = @ - 1, !.freeChannels = Append(@, c),
              !.groupToChannel = [g \in Group |-> IF @[g] = c THEN kNoChannel ELSE @[g]]]

\* The last user gives the channel back, and the first group that points to
\* it is reset.
LeaveChannel(r, c) ==
    LET left == [r EXCEPT !.channelRefCount[c] = @ - 1]
        First(g) == /\ r.groupToChannel[g] = c
                    /\ \A h \in Group : r.groupToChannel[h] = c => g <= h
    IN  IF left.channelRefCount[c] > 0 THEN left
        ELSE [left EXCEPT
                 !.freeChannels = Append(@, c),
                 !.groupToChannel = [g \in Group |-> IF First(g) THEN kNoChannel ELSE @[g]]]

Release(r, t) ==
    IF Releasable(r, t)
    THEN [LeaveChannel(r, r.tokenToChannel[t]) EXCEPT
             !.tokenUsed[t] = FALSE,
             !.freeTokens = Append(@, t)]
    ELSE r

-----------------------------------------------------------------------------
(* What must be true of a registry, whoever calls it in whatever order *)

UsersOf(r, c) == {t \in Token : r.tokenUsed[t] /\ r.tokenToChannel[t] = c}

\* A token is in use, or on the free stack, or not handed out yet.
TokensAccounted(r) ==
    /\ \A t \in Token : r.tokenUsed[t] => t < r.nextToken
    /\ \A t \in Token : t < r.nextToken /\ ~r.tokenUsed[t] <=>
          \E i \in 1..Len(r.freeTokens) : r.freeTokens[i] = t
    /\ \A i, j \in 1..Len(r.freeTokens) : r.freeTokens[i] = r.freeTokens[j] => i = j

\* The free stack holds the channels without users, each once.
ChannelsAccounted(r) ==
    /\ \A c \in Channel : r.channelRefCount[c] = 0 <=>
          \E i \in 1..Len(r.freeChannels) : r.freeChannels[i] = c
    /\ \A i, j \in 1..Len(r.freeChannels) : r.freeChannels[i] = r.freeChannels[j] => i = j

\* No token is in use on a channel that counts fewer users: the assertion
\* against underflow in release() holds, and no channel is given back early.
UsersCounted(r) == \A c \in Channel : Cardinality(UsersOf(r, c)) <= r.channelRefCount[c]

\* A group points to a shared channel that is in use, and to none that
\* another group points to.
GroupsSound(r) ==
    \A g \in Group : r.groupToChannel[g] # kNoChannel =>
        /\ r.channelRefCount[r.groupToChannel[g]] > 0
        /\ r.channelMode[r.groupToChannel[g]] = Shared
        /\ \A h \in Group : r.groupToChannel[h] = r.groupToChannel[g] => h = g
=============================================================================
