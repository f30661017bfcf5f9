----------------------------- MODULE Registration -----------------------------
(***************************************************************************)
(* RegistrationHandle of publisher/runtime/registration_handle.hpp over    *)
(* one TokenRegistry: an owner of one token that takes it when it is       *)
(* constructed, gives it back when it is destroyed, and can be moved and   *)
(* reassigned.  Any number of handles live and die in any order; a call is *)
(* one step, for neither class synchronises and their users (LogEngine,    *)
(* main) call them from one thread.                                        *)
(***************************************************************************)
EXTENDS TokenRegistry

CONSTANT Handle

VARIABLES
    registry,   \* the TokenRegistry
    live,       \* the handles that are constructed and not destroyed
    attached,   \* those with registry_ # nullptr
    token_,     \* RegistrationHandle::token_
    purpose     \* history: what each handle that has a token asked for

vars == <<registry, live, attached, token_, purpose>>

Init ==
    /\ registry = NewRegistry
    /\ live = {}
    /\ attached = {}
    /\ token_ = [h \in Handle |-> kInvalidToken]
    /\ purpose = [h \in Handle |-> Exclusive]

TypeOK ==
    /\ registry \in Registry
    /\ live \subseteq Handle
    /\ attached \subseteq live
    /\ token_ \in [Handle -> Token \cup {kInvalidToken}]
    /\ purpose \in [Handle -> Purpose]

valid(h) == h \in attached /\ token_[h] # kInvalidToken

\* RegistrationHandle::release: nothing to do without a token, and an
\* exception of the registry is swallowed.
AfterRelease(h) == IF valid(h) THEN Release(registry, token_[h]) ELSE registry

-----------------------------------------------------------------------------
\* RegistrationHandle().
ConstructDetached(h) ==
    /\ h \notin live
    /\ live' = live \cup {h}
    /\ token_' = [token_ EXCEPT ![h] = kInvalidToken]
    /\ UNCHANGED <<registry, attached, purpose>>

\* RegistrationHandle(registry) and RegistrationHandle(registry, group).
\* When acquire throws there is no handle, but there is a changed registry.
Construct(h, p) ==
    /\ h \notin live
    /\ registry' = Acquire(registry, p)
    /\ IF Grants(registry, p)
       THEN /\ live' = live \cup {h}
            /\ attached' = attached \cup {h}
            /\ token_' = [token_ EXCEPT ![h] = FreshToken(registry)]
            /\ purpose' = [purpose EXCEPT ![h] = p]
       ELSE UNCHANGED <<live, attached, token_, purpose>>

Destroy(h) ==
    /\ h \in live
    /\ registry' = AfterRelease(h)
    /\ live' = live \ {h}
    /\ attached' = attached \ {h}
    /\ token_' = [token_ EXCEPT ![h] = kInvalidToken]
    /\ purpose' = [purpose EXCEPT ![h] = Exclusive]

\* Mutation of TakeOver: the source keeps its token.
TakeOverCopy(h, o) ==
    /\ attached' = IF o \in attached THEN attached \cup {h} ELSE attached \ {h}
    /\ token_' = [token_ EXCEPT ![h] = token_[o]]
    /\ purpose' = [purpose EXCEPT ![h] = purpose[o]]

\* h gets what o has, and o is left detached.
TakeOver(h, o) ==
    /\ attached' = (IF o \in attached THEN attached \cup {h} ELSE attached \ {h}) \ {o}
    /\ token_' = [token_ EXCEPT ![h] = token_[o], ![o] = kInvalidToken]
    /\ purpose' = [purpose EXCEPT ![h] = purpose[o], ![o] = Exclusive]

MoveConstruct(h, o) ==
    /\ h \notin live
    /\ o \in live
    /\ live' = live \cup {h}
    /\ TakeOver(h, o)
    /\ UNCHANGED registry

\* h = std::move(o); onto itself it does nothing.
MoveAssign(h, o) ==
    /\ h \in live
    /\ o \in live \ {h}
    /\ registry' = AfterRelease(h)
    /\ TakeOver(h, o)
    /\ UNCHANGED live

\* reassign() and reassign(group), on an attached handle as they assert.
\* The old token is gone before the new one is asked for: when acquire
\* throws the handle stays attached and has none.
Reassign(h, p) ==
    /\ h \in attached
    /\ registry' = Acquire(AfterRelease(h), p)
    /\ token_' = [token_ EXCEPT ![h] = IF Grants(AfterRelease(h), p)
                                       THEN FreshToken(AfterRelease(h))
                                       ELSE kInvalidToken]
    /\ purpose' = [purpose EXCEPT ![h] =
                      IF Grants(AfterRelease(h), p) THEN p ELSE Exclusive]
    /\ UNCHANGED <<live, attached>>

Next ==
    \E h \in Handle :
        \/ ConstructDetached(h)
        \/ Destroy(h)
        \/ \E p \in Purpose : Construct(h, p) \/ Reassign(h, p)
        \/ \E o \in Handle : MoveConstruct(h, o) \/ MoveAssign(h, o)

Spec == Init /\ [][Next]_vars

-----------------------------------------------------------------------------
\* The bookkeeping of the registry under every history of handles.
RegistrySound ==
    /\ TokensAccounted(registry)
    /\ ChannelsAccounted(registry)
    /\ UsersCounted(registry)
    /\ GroupsSound(registry)

\* A token in use belongs to one handle, and a handle that has a token has
\* one in use: release() in a destructor never throws, so the catch (...)
\* that would hide it has nothing to hide, and no token is in use for ever.
TokensOwned ==
    /\ \A h \in Handle : valid(h) => Releasable(registry, token_[h])
    /\ \A h, o \in Handle : valid(h) /\ valid(o) /\ token_[h] = token_[o] => h = o
    /\ \A t \in Token : registry.tokenUsed[t] => \E h \in Handle : valid(h) /\ token_[h] = t

\* TokenRegistry::resolve, which picks the slot that publish and publish_view
\* write to.
ChannelOf(h) == registry.tokenToChannel[token_[h]]

\* Two handles have one channel exactly when both asked for the same group; a
\* handle that asked for a channel of its own has it to itself, whoever had the
\* channel or the token before.  (Which stream stands in the slot of a channel
\* is the configuration's choice: main and LogEngine put std::cout in each.)
Isolation ==
    \A h, o \in Handle : valid(h) /\ valid(o) /\ h # o =>
        (ChannelOf(h) = ChannelOf(o) <=> purpose[h] = purpose[o] /\ purpose[h] \in Group)

\* Reference counts and users go apart only when a call finds a channel and
\* then no token: allocateToken throws after the channel was counted.
Uncounted == {c \in Channel :
    registry.channelRefCount[c] # Cardinality(UsersOf(registry, c))}

LeaksOnlyWithoutTokens == [][TokensLeft(registry) => Uncounted' \subseteq Uncounted]_vars

\* "GroupRefCountTracksUsers" (publisher_runtime_test.cpp:136): the count of
\* a channel is the number of its users.
RefCountTracksUsers == Uncounted = {}
=============================================================================
