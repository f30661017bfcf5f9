---------------------------- MODULE ServerBuilder ----------------------------
(***************************************************************************)
(* ServerBuilder of app/include/server/server.h: with...() puts a piece    *)
(* into the builder and sets its flag, build() checks the flags and moves  *)
(* the pieces into a new server.  The flags stay set and nothing says that *)
(* a piece is gone, so the builder can be asked to build again.            *)
(*                                                                         *)
(* A moved-from ServerConfig has lost its vectors and kept its numbers;    *)
(* what a moved-from queue, parser, executor, distributor or adapter still *)
(* does is up to its type.  The hooks are copied.                          *)
(***************************************************************************)
EXTENDS Integers, Sequences

CONSTANTS
    Config,         \* the configurations given: listeners and worker_count
    NoServer,       \* nullptr
    MaxBuilds       \* bound

ASSUME ServerBuilderAssumption ==
    /\ Config # {}
    /\ \A c \in Config : DOMAIN c = {"listeners", "worker_count"} /\ c.worker_count \in Nat
    /\ MaxBuilds \in Nat

Piece == {"queue", "parser", "executor", "distributor", "adapters"}

VARIABLES
    config_, hooks_, pieces_,   \* what the builder holds
    has,                        \* its flags, as a set
    server,                     \* what build() returned last
    builds,                     \* history: the servers it has returned,
    given                       \* history: and what was put in since the last of them

builderVars == <<config_, hooks_, pieces_, has, server, builds, given>>

\* The lists of a moved-from vector, and those of a ServerConfig{}.
NoListeners == <<>>

DefaultConfig == [listeners |-> NoListeners, worker_count |-> 1]
NoPieces      == [p \in Piece |-> "default"]

BuilderInit ==
    /\ config_ = DefaultConfig /\ hooks_ = "noop" /\ pieces_ = NoPieces /\ has = {}
    /\ server = NoServer /\ builds = 0 /\ given = {}

WithConfig(c) ==
    /\ config_' = c
    /\ has' = has \cup {"config"} /\ given' = given \cup {"config"}
    /\ UNCHANGED <<hooks_, pieces_, server, builds>>

WithHooks ==
    /\ hooks_' = "given"
    /\ UNCHANGED <<config_, pieces_, has, server, builds, given>>

With(p) ==
    /\ pieces_' = [pieces_ EXCEPT ![p] = "given"]
    /\ has' = has \cup {p} /\ given' = given \cup {p}
    /\ UNCHANGED <<config_, hooks_, server, builds>>

\* Mutation of isValid: the adapters are not asked for.
isValidNoAdapters == Piece \cup {"config"} \subseteq has \cup {"adapters"}

isValid == has = Piece \cup {"config"}

\* The constructor, with buildListenersFromConfig.
NewServer == [config |-> config_, hooks |-> hooks_, pieces |-> pieces_,
              listeners |-> config_.listeners, given |-> given]

Build ==
    /\ builds < MaxBuilds
    /\ isValid
    /\ server' = NewServer
    /\ config_' = [config_ EXCEPT !.listeners = NoListeners]
    /\ pieces_' = [p \in Piece |-> "moved"]
    /\ builds' = builds + 1 /\ given' = {}
    /\ UNCHANGED <<hooks_, has>>

BuildInvalid ==
    /\ ~isValid
    /\ server' = NoServer
    /\ UNCHANGED <<config_, hooks_, pieces_, has, builds, given>>

BuilderNext ==
    \/ \E c \in Config : WithConfig(c)
    \/ WithHooks
    \/ \E p \in Piece : With(p)
    \/ Build \/ BuildInvalid

\* The end of the builder.
BuilderGone ==
    /\ config_' = DefaultConfig /\ hooks_' = "noop" /\ pieces_' = NoPieces /\ has' = {}
    /\ given' = {}
    /\ UNCHANGED <<server, builds>>

BuilderSpec == BuilderInit /\ [][BuilderNext]_builderVars

-----------------------------------------------------------------------------
BuilderTypeOK ==
    /\ config_ \in Config \cup {DefaultConfig}
                  \cup {[c EXCEPT !.listeners = NoListeners] : c \in Config}
    /\ hooks_ \in {"noop", "given"}
    /\ pieces_ \in [Piece -> {"default", "given", "moved"}]
    /\ has \subseteq Piece \cup {"config"} /\ given \subseteq Piece \cup {"config"}
    /\ builds \in Nat

\* "Builder validates required pieces" (server.h:409): no server runs on a piece
\* that nobody gave, and what it lacks is what an earlier build() has taken away
\* and nobody has given again; its numbers are somebody's even then.
BuiltFromGivenPieces ==
    server # NoServer =>
        /\ \A p \in Piece : /\ server.pieces[p] # "default"
                            /\ server.pieces[p] = "moved" <=> p \notin server.given
        /\ \E c \in Config :
              /\ server.config.worker_count = c.worker_count
              /\ server.listeners = IF "config" \in server.given THEN c.listeners
                                    ELSE NoListeners
        /\ builds = 1 => server.given = Piece \cup {"config"}
=============================================================================
