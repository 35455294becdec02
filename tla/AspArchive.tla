----------------------------- MODULE AspArchive -----------------------------
(***************************************************************************)
(* What the custody of Agent Security Profiles promises, with nothing said *)
(* of how: every stored piece of evidence belongs to one agent identity,   *)
(* the history of locked alignment versions only grows, the evidence       *)
(* behind a locked version is kept for ever, and the alignment an agent is *)
(* held to is one of that agent's own versions.  AspCustody implements it. *)
(***************************************************************************)
EXTENDS Naturals

CONSTANTS
    Bundles,     \* exact evidence bundles (one per digest)
    Identities,  \* agent identities
    Labels,      \* version labels an operator may choose
    NoVersion    \* "this agent is held to nothing yet"

VARIABLES
    evidence,    \* stored bundle |-> the identity it was stored under
    versions,    \* the locked alignment versions, an append-only history
    binding      \* identity |-> the version it is held to

archiveVars == <<evidence, versions, binding>>

Kept == {v.asp : v \in versions}

ArchiveInit ==
    /\ evidence = [b \in {} |-> NoVersion]
    /\ versions = {}
    /\ binding = [i \in Identities |-> NoVersion]

(* New evidence arrives for i; anything unlocked may be retired with it.   *)
Collect(b, i) ==
    /\ b \notin DOMAIN evidence
    /\ \E kept \in SUBSET (DOMAIN evidence \cup {b}) :
          /\ Kept \subseteq kept
          /\ evidence' = [c \in kept |-> IF c = b THEN i ELSE evidence[c]]
    /\ UNCHANGED <<versions, binding>>

(* Evidence nobody locked is retired.                                      *)
Retire ==
    /\ \E kept \in SUBSET DOMAIN evidence :
          /\ Kept \subseteq kept
          /\ evidence' = [c \in kept |-> evidence[c]]
    /\ UNCHANGED <<versions, binding>>

(* Stored evidence becomes a version of its own agent, at most once, under *)
(* a label that agent has not used.                                        *)
VersionOf(b, label) == [asp |-> b, label |-> label, identity |-> evidence[b]]

Record(v) ==
    /\ \A w \in versions : /\ w.asp # v.asp
                           /\ w.identity = v.identity => w.label # v.label
    /\ versions' = versions \cup {v}

(* An agent is held to a recorded version of its own.                      *)
Bind(v) == binding' = [binding EXCEPT ![v.identity] = v]

Lock(v)        == Record(v) /\ UNCHANGED <<evidence, binding>>
LockAndBind(v) == Record(v) /\ Bind(v) /\ UNCHANGED evidence
Activate(v)    == Bind(v) /\ UNCHANGED <<evidence, versions>>

ArchiveNext ==
    \/ \E b \in Bundles, i \in Identities : Collect(b, i)
    \/ Retire
    \/ \E b \in DOMAIN evidence, label \in Labels :
          Lock(VersionOf(b, label)) \/ LockAndBind(VersionOf(b, label))
    \/ \E v \in versions : Activate(v)

ArchiveSpec == ArchiveInit /\ [][ArchiveNext]_archiveVars
=============================================================================
