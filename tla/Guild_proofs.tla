---------------------------- MODULE Guild_proofs ----------------------------
(***************************************************************************)
(* Theorems about the guild cache (Guild).                                 *)
(*                                                                         *)
(* What is on its way to the cache decides what the cache will hold: the   *)
(* invariant says, of every role and channel, that the last event under    *)
(* way that tells of it, or the cache itself when there is none, tells     *)
(* what Discord has.  The same is said of the name of every command, whose *)
(* history may be ahead of the events, and of every cached member, where   *)
(* it is the whole course of the cache through the events to come that has *)
(* to be followed, since a session can be lost at any point of it.         *)
(***************************************************************************)
EXTENDS Guild, FiniteSetTheorems, SequenceTheorems, TLAPS

USE GuildAssumption

(* What a GuildCreate tells is well formed: its count is a number.         *)
LEMMA CreateType ==
    ASSUME NEW g \in GuildState, NEW S \in SUBSET Users
    PROVE  Create(g, S) \in Creates
<1>1. g.roles \in Versioned(Roles) /\ g.channels \in Versioned(Channels) /\ g.members \in Membership
  BY DEF GuildState
<1>2. DOMAIN g.members = Users
  BY <1>1 DEF Membership
<1>3. Present(g.members) \subseteq Users
  BY <1>2 DEF Present
<1>4. Cardinality(Present(g.members)) \in Nat
  BY <1>3, FS_Subset, FS_CardinalityType
<1>5. Partial(g.members, S) \in Membership
  BY <1>1, <1>2 DEF Partial, Membership
<1> QED BY <1>1, <1>4, <1>5 DEF Create, Creates, InfoOf, Info

(* Merging and stripping give memberships again.                           *)
LEMMA MembershipType ==
    ASSUME NEW f \in Membership
    PROVE  /\ \A h \in Membership : Merge(h, f) \in Membership
           /\ \A role : Without(f, role) \in Membership
           /\ \A u \in Users, R \in SUBSET Roles : [f EXCEPT ![u] = R] \in Membership
           /\ \A u \in Users : [f EXCEPT ![u] = Absent] \in Membership
<1>1. \A h \in Membership : Merge(h, f) \in Membership
  BY DEF Merge, Membership
<1>2. \A role : Without(f, role) \in Membership
  BY DEF Without, Membership
<1>3. \A u \in Users, R \in SUBSET Roles : [f EXCEPT ![u] = R] \in Membership
  BY DEF Membership
<1>4. \A u \in Users : [f EXCEPT ![u] = Absent] \in Membership
  BY DEF Membership
<1> QED BY <1>1, <1>2, <1>3, <1>4

LEMMA NobodyType == Nobody \in Membership
  BY DEF Nobody, Membership

LEMMA InitType == Init => TypeOK
<1> SUFFICES ASSUME Init PROVE TypeOK
  OBVIOUS
<1>1. guild \in GuildState
  <2> PICK known \in [Commands -> Names \cup {Absent}] :
        guild = [roles |-> [r \in Roles |-> 1], channels |-> [c \in Channels |-> 1],
                 members |-> [u \in Users |-> {}], commands |-> known]
    BY DEF Init
  <2>1. [r \in Roles |-> 1] \in Versioned(Roles) /\ [c \in Channels |-> 1] \in Versioned(Channels)
    BY DEF Versioned
  <2>2. [u \in Users |-> {}] \in Membership
    BY DEF Membership
  <2> QED BY <2>1, <2>2 DEF GuildState
<1>2. first \in Creates
  BY <1>1, CreateType DEF Init
<1>3. roles \in Versioned(Roles) /\ channels \in Versioned(Channels)
  BY DEF Init, Nothing, Versioned
<1>4. members \in Membership
  BY NobodyType DEF Init
<1>5. commands \in [Names -> Commands \cup {Absent}]
  BY DEF Init
<1>6. feed \in Seq(Events)
  BY DEF Init
<1>7. changes \in 0..MaxChanges /\ lost \in 0..MaxSessions /\ repeats \in 0..MaxRepeats
  BY DEF Init
<1>8. /\ phase \in {"loading", "running", "failed"} /\ request \in {"none", "sent", "rejected"}
      /\ renamed \in BOOLEAN /\ stale \in BOOLEAN
      /\ unheard \in SUBSET Users /\ left \in SUBSET Users
  BY DEF Init
<1> QED BY <1>1, <1>2, <1>3, <1>4, <1>5, <1>6, <1>7, <1>8 DEF TypeOK

-----------------------------------------------------------------------------
(* Type correctness, step by step.                                         *)

CacheOK ==
    /\ roles \in Versioned(Roles) /\ channels \in Versioned(Channels)
    /\ members \in Membership
    /\ commands \in [Names -> Commands \cup {Absent}]
    /\ request \in {"none", "sent", "rejected"}

(* A step of the cache that keeps its part keeps the rest.                 *)
LEMMA HandledType ==
    ASSUME TypeOK, NEW type, Next1(type), CacheOK'
    PROVE  TypeOK'
<1>1. feed' \in Seq(Events)
  BY DEF TypeOK, Next1
<1>2. repeats' \in 0..MaxRepeats
  BY DEF TypeOK, Next1
<1> QED BY <1>1, <1>2 DEF TypeOK, Next1, CacheOK, worldVars, lossVars

(* What the event at hand carries.                                         *)
LEMMA EventType ==
    ASSUME TypeOK, NEW type, Next1(type)
    PROVE  /\ feed[1] \in Events /\ feed[1].type = type
           /\ type = "create" => feed[1].info \in Info /\ feed[1].members \in Membership
           /\ type = "update" => feed[1].info \in Info
           /\ type \in {"member add", "member update"} =>
                feed[1].user \in Users /\ feed[1].roles \in SUBSET Roles
           /\ type = "member remove" => feed[1].user \in Users
           /\ type = "chunk" => feed[1].members \in Membership
           /\ type = "role" => feed[1].role \in Roles /\ feed[1].version \in Versions
           /\ type = "role delete" => feed[1].role \in Roles
           /\ type = "channel" => feed[1].channel \in Channels /\ feed[1].version \in Versions
           /\ type = "channel delete" => feed[1].channel \in Channels
           /\ type \in {"command", "command delete"} =>
                feed[1].command \in Commands /\ feed[1].name \in Names
<1>1. feed[1] \in Events /\ feed[1].type = type
  BY DEF TypeOK, Next1
<1> QED BY <1>1 DEF Events, Creates

(* update() keeps the types.                                               *)
LEMMA UpdateType ==
    ASSUME TypeOK, NEW info \in Info, NEW new \in Membership, NEW count,
           Update(info, new, count)
    PROVE  /\ roles' \in Versioned(Roles) /\ channels' \in Versioned(Channels)
           /\ members' \in Membership
           /\ request' \in {"none", "sent", "rejected"}
<1>1. members' \in Membership
  BY MembershipType DEF TypeOK, Update
<1> QED BY <1>1 DEF TypeOK, Update, Info

LEMMA HandledKeepsType == ASSUME TypeOK, Handled PROVE TypeOK'
<1>1. CASE GuildCreate
  <2>1. CacheOK'
    BY <1>1, EventType, UpdateType DEF GuildCreate, CacheOK, TypeOK
  <2> QED BY <1>1, <2>1, HandledType DEF GuildCreate
<1>2. CASE GuildUpdate
  <2>1. CacheOK'
    BY <1>2, EventType, UpdateType, NobodyType DEF GuildUpdate, CacheOK, TypeOK
  <2> QED BY <1>2, <2>1, HandledType DEF GuildUpdate
<1>3. CASE GuildMemberAdd
  <2>1. CacheOK'
    BY <1>3, EventType, MembershipType DEF GuildMemberAdd, CacheOK, TypeOK
  <2> QED BY <1>3, <2>1, HandledType DEF GuildMemberAdd
<1>4. CASE GuildMemberUpdate
  <2>1. CacheOK'
    BY <1>4, EventType, MembershipType DEF GuildMemberUpdate, CacheOK, TypeOK
  <2> QED BY <1>4, <2>1, HandledType DEF GuildMemberUpdate
<1>5. CASE GuildMemberRemove
  <2>1. CacheOK'
    BY <1>5, EventType, MembershipType DEF GuildMemberRemove, CacheOK, TypeOK
  <2> QED BY <1>5, <2>1, HandledType DEF GuildMemberRemove
<1>6. CASE GuildMembersChunk
  <2>1. CacheOK'
    BY <1>6, EventType, MembershipType DEF GuildMembersChunk, CacheOK, TypeOK
  <2> QED BY <1>6, <2>1, HandledType DEF GuildMembersChunk
<1>7. CASE GuildRoleSet
  <2>1. CacheOK'
    BY <1>7, EventType DEF GuildRoleSet, CacheOK, TypeOK, Versioned
  <2> QED BY <1>7, <2>1, HandledType DEF GuildRoleSet
<1>8. CASE GuildRoleDelete
  <2>1. roles' \in Versioned(Roles)
    BY <1>8, EventType DEF GuildRoleDelete, TypeOK, Versioned
  <2>2. members' \in Membership
    BY <1>8, MembershipType DEF GuildRoleDelete, Stripped, TypeOK
  <2>3. CacheOK'
    BY <1>8, <2>1, <2>2 DEF GuildRoleDelete, CacheOK, TypeOK
  <2> QED BY <1>8, <2>3, HandledType DEF GuildRoleDelete
<1>9. CASE ChannelSet
  <2>1. CacheOK'
    BY <1>9, EventType DEF ChannelSet, CacheOK, TypeOK, Versioned
  <2> QED BY <1>9, <2>1, HandledType DEF ChannelSet
<1>10. CASE ChannelDelete
  <2>1. CacheOK'
    BY <1>10, EventType DEF ChannelDelete, ChannelRemoved, CacheOK, TypeOK, Versioned
  <2> QED BY <1>10, <2>1, HandledType DEF ChannelDelete
<1>11. CASE CommandSet
  <2>1. CacheOK'
    BY <1>11, EventType DEF CommandSet, Inserted, CacheOK, TypeOK
  <2> QED BY <1>11, <2>1, HandledType DEF CommandSet
<1>12. CASE CommandDelete
  <2>1. CacheOK'
    BY <1>12, EventType DEF CommandDelete, CacheOK, TypeOK
  <2> QED BY <1>12, <2>1, HandledType DEF CommandDelete
<1> QED BY <1>1, <1>2, <1>3, <1>4, <1>5, <1>6, <1>7, <1>8, <1>9, <1>10, <1>11, <1>12 DEF Handled

(* Discord's steps: a change of the guild and its event.                   *)
LEMMA ReportType ==
    ASSUME TypeOK, NEW event \in Events, Report(event)
    PROVE  feed' \in Seq(Events)
BY DEF TypeOK, Report

LEMMA ChangeType ==
    ASSUME TypeOK, NEW new \in GuildState, NEW event \in Events, Change(new, event),
           renamed' \in BOOLEAN
    PROVE  TypeOK'
<1>1. feed' \in Seq(Events)
  BY ReportType DEF Change
<1>2. changes' \in 0..MaxChanges
  BY DEF TypeOK, Change
<1>3. guild' \in GuildState
  BY DEF Change
<1> QED BY <1>1, <1>2, <1>3 DEF TypeOK, Change, cacheVars, lossVars

Changes ==
    \/ MemberJoins \/ MemberChanges \/ MemberLeaves \/ RoleSet \/ RoleDeleted
    \/ ChannelChanges \/ ChannelDeleted \/ GuildChanges \/ CommandNamed \/ CommandDeleted

(* What an event tells of a role or of a channel, if anything.             *)
Silent == -1

RoleNews(e, r) ==
    CASE e.type \in {"create", "update"} -> e.info.roles[r]
      [] e.type = "role" /\ e.role = r -> e.version
      [] e.type = "role delete" /\ e.role = r -> 0
      [] OTHER -> Silent

ChannelNews(e, c) ==
    CASE e.type \in {"create", "update"} -> e.info.channels[c]
      [] e.type = "channel" /\ e.channel = c -> e.version
      [] e.type = "channel delete" /\ e.channel = c -> 0
      [] OTHER -> Silent

LEMMA NothingSpeaks == 0 # Silent
  BY DEF Silent

LEMMA VersionsSpeak == \A v \in Versions : v # Silent
  BY DEF Silent

(* The event tells how the new guild differs from the old one.             *)
Truthful(new, e) ==
    /\ \A r \in Roles : new.roles[r] = IF RoleNews(e, r) = Silent THEN guild.roles[r]
                                       ELSE RoleNews(e, r)
    /\ \A c \in Channels : new.channels[c] = IF ChannelNews(e, c) = Silent THEN guild.channels[c]
                                             ELSE ChannelNews(e, c)

Tells ==
    /\ renamed' \in BOOLEAN
    /\ \E new \in GuildState, e \in Events : Change(new, e) /\ Truthful(new, e)

(* An event of another kind goes with the same roles and channels.         *)
LEMMA OtherNews ==
    ASSUME TypeOK, NEW new \in GuildState, NEW e \in Events, Change(new, e), renamed' \in BOOLEAN,
           new.roles = guild.roles, new.channels = guild.channels,
           e.type \in {"member add", "member update", "member remove", "command", "command delete"}
    PROVE  Tells
<1>1. Truthful(new, e)
  BY DEF Truthful, RoleNews, ChannelNews, Silent
<1> QED BY <1>1 DEF Tells

LEMMA ChangesTell == ASSUME TypeOK, Changes PROVE Tells
<1> USE DEF TypeOK
<1>0. /\ guild.roles \in Versioned(Roles) /\ guild.channels \in Versioned(Channels)
      /\ guild.members \in Membership /\ guild.commands \in [Commands -> Names \cup {Absent}]
  BY DEF GuildState
<1>1. CASE MemberJoins
  <2> PICK u \in Users :
        Change([guild EXCEPT !.members[u] = {}], [type |-> "member add", user |-> u, roles |-> {}])
    BY <1>1 DEF MemberJoins
  <2>1. [guild.members EXCEPT ![u] = {}] \in Membership
    BY <1>0, MembershipType
  <2>2. [guild EXCEPT !.members[u] = {}] \in GuildState
    BY <2>1 DEF GuildState
  <2>3. [type |-> "member add", user |-> u, roles |-> {}] \in Events
    BY DEF Events
  <2> QED BY <1>1, <2>2, <2>3, OtherNews DEF MemberJoins, GuildState
<1>2. CASE MemberChanges
  <2> PICK u \in Present(guild.members), R \in SUBSET Existing(guild.roles) :
        Change([guild EXCEPT !.members[u] = R], [type |-> "member update", user |-> u, roles |-> R])
    BY <1>2 DEF MemberChanges
  <2>1. u \in Users /\ R \in SUBSET Roles
    BY <1>0 DEF Present, Existing, Membership, Versioned
  <2>2. [guild.members EXCEPT ![u] = R] \in Membership
    BY <1>0, <2>1, MembershipType
  <2>3. [guild EXCEPT !.members[u] = R] \in GuildState
    BY <2>2 DEF GuildState
  <2>4. [type |-> "member update", user |-> u, roles |-> R] \in Events
    BY <2>1 DEF Events
  <2> QED BY <1>2, <2>3, <2>4, OtherNews DEF MemberChanges, GuildState
<1>3. CASE MemberLeaves
  <2> PICK u \in Present(guild.members) :
        Change([guild EXCEPT !.members[u] = Absent], [type |-> "member remove", user |-> u])
    BY <1>3 DEF MemberLeaves
  <2>1. u \in Users
    BY <1>0 DEF Present, Membership
  <2>2. [guild.members EXCEPT ![u] = Absent] \in Membership
    BY <1>0, <2>1, MembershipType
  <2>3. [guild EXCEPT !.members[u] = Absent] \in GuildState
    BY <2>2 DEF GuildState
  <2>4. [type |-> "member remove", user |-> u] \in Events
    BY <2>1 DEF Events
  <2> QED BY <1>3, <2>3, <2>4, OtherNews DEF MemberLeaves, GuildState
<1>4. CASE RoleSet
  <2> PICK r \in Roles, v \in Versions :
        Change([guild EXCEPT !.roles[r] = v], [type |-> "role", role |-> r, version |-> v])
    BY <1>4 DEF RoleSet
  <2> DEFINE new == [guild EXCEPT !.roles[r] = v]
             e == [type |-> "role", role |-> r, version |-> v]
  <2>1. [guild.roles EXCEPT ![r] = v] \in Versioned(Roles)
    BY <1>0 DEF Versioned
  <2>2. new \in GuildState
    BY <2>1 DEF GuildState
  <2>3. e \in Events
    BY DEF Events
  <2>4. new.roles = [guild.roles EXCEPT ![r] = v] /\ new.channels = guild.channels
    BY DEF GuildState
  <2>5. \A q \in Roles : RoleNews(e, q) = IF q = r THEN v ELSE Silent
    BY DEF RoleNews
  <2>6. \A c \in Channels : ChannelNews(e, c) = Silent
    BY DEF ChannelNews
  <2>7. Truthful(new, e)
    BY <1>0, <2>4, <2>5, <2>6 DEF Truthful, Silent, Versioned
  <2> QED BY <1>4, <2>2, <2>3, <2>7 DEF RoleSet, Tells
<1>5. CASE RoleDeleted
  <2> PICK r \in Roles :
        Change([guild EXCEPT !.roles[r] = 0, !.members = Without(guild.members, r)],
               [type |-> "role delete", role |-> r])
    BY <1>5 DEF RoleDeleted
  <2> DEFINE new == [guild EXCEPT !.roles[r] = 0, !.members = Without(guild.members, r)]
             e == [type |-> "role delete", role |-> r]
  <2>1. [guild.roles EXCEPT ![r] = 0] \in Versioned(Roles) /\ Without(guild.members, r) \in Membership
    BY <1>0, MembershipType DEF Versioned
  <2>2. new \in GuildState
    BY <2>1 DEF GuildState
  <2>3. e \in Events
    BY DEF Events
  <2>4. new.roles = [guild.roles EXCEPT ![r] = 0] /\ new.channels = guild.channels
    BY DEF GuildState
  <2>5. \A q \in Roles : RoleNews(e, q) = IF q = r THEN 0 ELSE Silent
    BY DEF RoleNews
  <2>6. \A c \in Channels : ChannelNews(e, c) = Silent
    BY DEF ChannelNews
  <2> HIDE DEF new, e
  <2>7. \A q \in Roles : new.roles[q] = IF q = r THEN 0 ELSE guild.roles[q]
    BY <1>0, <2>4 DEF Versioned
  <2>8. Truthful(new, e)
    BY <2>4, <2>5, <2>6, <2>7, NothingSpeaks DEF Truthful
  <2>9. Change(new, e)
    BY DEF new, e
  <2> QED BY <1>5, <2>2, <2>3, <2>8, <2>9 DEF RoleDeleted, Tells
<1>6. CASE ChannelChanges
  <2> PICK c \in Channels, v \in Versions :
        Change([guild EXCEPT !.channels[c] = v], [type |-> "channel", channel |-> c, version |-> v])
    BY <1>6 DEF ChannelChanges
  <2> DEFINE new == [guild EXCEPT !.channels[c] = v]
             e == [type |-> "channel", channel |-> c, version |-> v]
  <2>1. [guild.channels EXCEPT ![c] = v] \in Versioned(Channels)
    BY <1>0 DEF Versioned
  <2>2. new \in GuildState
    BY <2>1 DEF GuildState
  <2>3. e \in Events
    BY DEF Events
  <2>4. new.channels = [guild.channels EXCEPT ![c] = v] /\ new.roles = guild.roles
    BY DEF GuildState
  <2>5. \A d \in Channels : ChannelNews(e, d) = IF d = c THEN v ELSE Silent
    BY DEF ChannelNews
  <2>6. \A r \in Roles : RoleNews(e, r) = Silent
    BY DEF RoleNews
  <2>7. Truthful(new, e)
    BY <1>0, <2>4, <2>5, <2>6 DEF Truthful, Silent, Versioned
  <2> QED BY <1>6, <2>2, <2>3, <2>7 DEF ChannelChanges, Tells
<1>7. CASE ChannelDeleted
  <2> PICK c \in Channels :
        Change([guild EXCEPT !.channels[c] = 0], [type |-> "channel delete", channel |-> c])
    BY <1>7 DEF ChannelDeleted
  <2> DEFINE new == [guild EXCEPT !.channels[c] = 0]
             e == [type |-> "channel delete", channel |-> c]
  <2>1. [guild.channels EXCEPT ![c] = 0] \in Versioned(Channels)
    BY <1>0 DEF Versioned
  <2>2. new \in GuildState
    BY <2>1 DEF GuildState
  <2>3. e \in Events
    BY DEF Events
  <2>4. new.channels = [guild.channels EXCEPT ![c] = 0] /\ new.roles = guild.roles
    BY DEF GuildState
  <2>5. \A d \in Channels : ChannelNews(e, d) = IF d = c THEN 0 ELSE Silent
    BY DEF ChannelNews
  <2>6. \A r \in Roles : RoleNews(e, r) = Silent
    BY DEF RoleNews
  <2> HIDE DEF new, e
  <2>7. \A d \in Channels : new.channels[d] = IF d = c THEN 0 ELSE guild.channels[d]
    BY <1>0, <2>4 DEF Versioned
  <2>8. Truthful(new, e)
    BY <2>4, <2>5, <2>6, <2>7, NothingSpeaks DEF Truthful
  <2>9. Change(new, e)
    BY DEF new, e
  <2> QED BY <1>7, <2>2, <2>3, <2>8, <2>9 DEF ChannelDeleted, Tells
<1>8. CASE GuildChanges
  <2> DEFINE e == [type |-> "update", info |-> InfoOf(guild)]
  <2>1. Change(guild, e)
    BY <1>8 DEF GuildChanges
  <2>2. e \in Events
    BY <1>0 DEF Events, Info, InfoOf
  <2>3. /\ \A r \in Roles : RoleNews(e, r) = guild.roles[r]
        /\ \A c \in Channels : ChannelNews(e, c) = guild.channels[c]
    BY DEF RoleNews, ChannelNews, InfoOf
  <2>4. Truthful(guild, e)
    BY <2>3 DEF Truthful
  <2> QED BY <1>8, <2>1, <2>2, <2>4 DEF GuildChanges, Tells
<1>9. CASE CommandNamed
  <2> PICK c \in Commands, n \in Names :
        /\ Change([guild EXCEPT !.commands[c] = n], [type |-> "command", command |-> c, name |-> n])
        /\ renamed' = (renamed \/ guild.commands[c] # Absent)
    BY <1>9 DEF CommandNamed
  <2>1. [guild.commands EXCEPT ![c] = n] \in [Commands -> Names \cup {Absent}]
    BY <1>0
  <2>2. [guild EXCEPT !.commands[c] = n] \in GuildState
    BY <2>1 DEF GuildState
  <2>3. [type |-> "command", command |-> c, name |-> n] \in Events
    BY DEF Events
  <2> QED BY <2>2, <2>3, OtherNews DEF GuildState
<1>10. CASE CommandDeleted
  <2> PICK c \in Present(guild.commands) :
        Change([guild EXCEPT !.commands[c] = Absent],
               [type |-> "command delete", command |-> c, name |-> guild.commands[c]])
    BY <1>10 DEF CommandDeleted
  <2>1. c \in Commands /\ guild.commands[c] \in Names
    BY <1>0 DEF Present
  <2>2. [guild.commands EXCEPT ![c] = Absent] \in [Commands -> Names \cup {Absent}]
    BY <1>0
  <2>3. [guild EXCEPT !.commands[c] = Absent] \in GuildState
    BY <2>2 DEF GuildState
  <2>4. [type |-> "command delete", command |-> c, name |-> guild.commands[c]] \in Events
    BY <2>1 DEF Events
  <2> QED BY <1>10, <2>3, <2>4, OtherNews DEF CommandDeleted, GuildState
<1> QED BY <1>1, <1>2, <1>3, <1>4, <1>5, <1>6, <1>7, <1>8, <1>9, <1>10 DEF Changes

LEMMA ChangesKeepType == ASSUME TypeOK, Changes PROVE TypeOK'
BY ChangesTell, ChangeType DEF Tells

-----------------------------------------------------------------------------
(* The cache is built from a GuildCreate.                                  *)
Begun == phase = "loading" => first \in Creates

LEMMA ListType == ASSUME TypeOK PROVE CommandList \in [Names -> Commands \cup {Absent}]
BY DEF CommandList

LEMMA LoadKeepsType == ASSUME TypeOK, Begun, Load PROVE TypeOK' /\ Begun'
<1>1. first.info \in Info /\ first.members \in Membership
  BY DEF Begun, Load, Creates
<1>2. CacheOK'
  BY <1>1, UpdateType, ListType DEF Load, CacheOK
<1> QED BY <1>2 DEF Load, CacheOK, TypeOK, Begun, worldVars, lossVars

LEMMA LoadFailsKeepsType == ASSUME TypeOK, LoadFails PROVE TypeOK' /\ Begun'
BY DEF LoadFails, TypeOK, Begun, cacheVars, worldVars, lossVars

LEMMA AnswerKeepsType == ASSUME TypeOK, Begun, AnswerRequest PROVE TypeOK' /\ Begun'
<1>1. [type |-> "chunk", members |-> guild.members] \in Events
  BY DEF TypeOK, GuildState, Events
<1>2. feed' \in Seq(Events)
  BY <1>1, ReportType DEF AnswerRequest
<1> QED BY <1>2 DEF AnswerRequest, TypeOK, Begun, cacheVars, worldVars, lossVars

(* A feed cut after k events, with one event added.                        *)
LEMMA CutFeed ==
    ASSUME NEW S, NEW s \in Seq(S), NEW k \in 0..Len(s), NEW e \in S,
           NEW t, t = Append(SubSeq(s, 1, k), e)
    PROVE  t \in Seq(S) /\ Len(t) = k + 1 /\ t[k + 1] = e
<1>1. SubSeq(s, 1, k) \in Seq(S) /\ Len(SubSeq(s, 1, k)) = k
  BY SubSeqProperties
<1> QED BY <1>1

(* What is kept of a cut feed is its beginning.                            *)
LEMMA CutFeedStart ==
    ASSUME NEW S, NEW s \in Seq(S), NEW k \in 0..Len(s), NEW e \in S,
           NEW t, t = Append(SubSeq(s, 1, k), e)
    PROVE  \A i \in 1..k : t[i] = s[i]
<1>1. /\ SubSeq(s, 1, k) \in Seq(S) /\ Len(SubSeq(s, 1, k)) = k
      /\ \A i \in 1..k : SubSeq(s, 1, k)[i] = s[i]
  BY SubSeqProperties
<1> QED BY <1>1

LEMMA LossKeepsType == ASSUME TypeOK, Begun, SessionLost PROVE TypeOK' /\ Begun'
<1>0. PICK k \in 0..Len(feed), S \in SUBSET Users :
      LET cut == {feed[i] : i \in (k + 1)..Len(feed)} IN
      /\ feed' = Append(SubSeq(feed, 1, k), Create(guild, S))
      /\ stale' = (stale \/ \E e \in cut : e.type \in {"command", "command delete"})
      /\ unheard' = unheard \cup UNION {About(e) : e \in cut}
      /\ left' = left \cup {e.user : e \in {d \in cut : d.type = "member remove"}}
  BY DEF SessionLost
<1> DEFINE cut == {feed[i] : i \in (k + 1)..Len(feed)}
<1>1. feed \in Seq(Events) /\ guild \in GuildState
  BY DEF TypeOK
<1>2. Create(guild, S) \in Events
  BY <1>1, CreateType DEF Events
<1>3. feed' \in Seq(Events)
  BY <1>0, <1>1, <1>2, CutFeed
<1>5. cut \subseteq Events
  <2>1. \A i \in (k + 1)..Len(feed) : feed[i] \in Events
    BY <1>1
  <2> QED BY <2>1
<1>6. \A e \in Events : About(e) \subseteq Users
  BY DEF About, Events, Creates
<1>7. \A e \in Events : e.type = "member remove" => e.user \in Users
  BY DEF Events, Creates
<1> HIDE DEF cut
<1>8. unheard' \subseteq Users
  <2>1. unheard' = unheard \cup UNION {About(e) : e \in cut}
    BY <1>0 DEF cut
  <2>2. unheard \subseteq Users
    BY DEF TypeOK
  <2> QED BY <1>5, <1>6, <2>1, <2>2
<1>9. left' \subseteq Users
  <2>1. left' = left \cup {e.user : e \in {d \in cut : d.type = "member remove"}}
    BY <1>0 DEF cut
  <2>2. left \subseteq Users
    BY DEF TypeOK
  <2> QED BY <1>5, <1>7, <2>1, <2>2
<1>10. stale' \in BOOLEAN
  BY <1>0 DEF cut
<1>11. lost' \in 0..MaxSessions
  <2>1. lost < MaxSessions /\ lost' = lost + 1
    BY DEF SessionLost
  <2> QED BY <2>1 DEF TypeOK
<1> QED BY <1>3, <1>8, <1>9, <1>10, <1>11 DEF SessionLost, TypeOK, Begun, cacheVars

LEMMA NextKeepsType == TypeOK /\ Begun /\ [Next]_vars => TypeOK' /\ Begun'
<1> SUFFICES ASSUME TypeOK, Begun, [Next]_vars PROVE TypeOK' /\ Begun'
  OBVIOUS
<1>1. CASE Handled
  <2>1. phase' = phase /\ phase = "running"
    BY <1>1 DEF Handled, GuildCreate, GuildUpdate, GuildMemberAdd, GuildMemberUpdate,
                GuildMemberRemove, GuildMembersChunk, GuildRoleSet, GuildRoleDelete,
                ChannelSet, ChannelDelete, CommandSet, CommandDelete, Next1
  <2> QED BY <1>1, <2>1, HandledKeepsType DEF Begun
<1>2. CASE Changes
  <2>1. phase' = phase /\ first' = first
    BY <1>2, ChangesTell DEF Tells, Change
  <2> QED BY <1>2, <2>1, ChangesKeepType DEF Begun
<1>3. CASE UNCHANGED vars
  BY <1>3 DEF vars, cacheVars, worldVars, lossVars, TypeOK, Begun
<1> QED BY <1>1, <1>2, <1>3, LoadKeepsType, LoadFailsKeepsType, AnswerKeepsType, LossKeepsType
        DEF Next, Discord, Quiet, Changes

LEMMA InitStarts == Init => TypeOK /\ Begun
<1>1. ASSUME Init PROVE first \in Creates
  <2>1. PICK S \in SUBSET Users : first = Create(guild, S)
    BY <1>1 DEF Init
  <2>2. guild \in GuildState
    BY <1>1, InitType DEF TypeOK
  <2> QED BY <2>1, <2>2, CreateType
<1> QED BY <1>1, InitType DEF Begun

(* The cache, the feed and the guild keep their types through every        *)
(* event, change, repetition and lost session (guild.rs:13-26, 33-314).    *)
THEOREM TypeCorrect == Spec => []TypeOK
<1>1. Init => TypeOK /\ Begun
  BY InitStarts
<1>2. TypeOK /\ Begun /\ [Next]_vars => TypeOK' /\ Begun'
  BY NextKeepsType
<1> QED BY <1>1, <1>2, PTL DEF Spec

-----------------------------------------------------------------------------
(* Roles and channels.                                                     *)

(* Of n pieces of news the last one that is not silent says what is so;    *)
(* when all are, it is what was.                                           *)
Heard(news, n, was, is) ==
    /\ \A i \in 1..n :
          news[i] # Silent /\ (\A j \in (i + 1)..n : news[j] = Silent) => news[i] = is
    /\ (\A i \in 1..n : news[i] = Silent) => was = is

(* One more at the end.                                                    *)
LEMMA HeardMore ==
    ASSUME NEW n \in Nat, NEW news, NEW longer, NEW was, NEW is, NEW now,
           \A i \in 1..n : longer[i] = news[i],
           now = IF longer[n + 1] = Silent THEN is ELSE longer[n + 1],
           Heard(news, n, was, is)
    PROVE  Heard(longer, n + 1, was, now)
<1>1. ASSUME NEW i \in 1..(n + 1), longer[i] # Silent, \A j \in (i + 1)..(n + 1) : longer[j] = Silent
      PROVE  longer[i] = now
  <2>1. CASE i = n + 1
    BY <1>1, <2>1
  <2>2. CASE i \in 1..n
    <3>1. longer[n + 1] = Silent
      BY <1>1, <2>2
    <3>2. \A j \in (i + 1)..n : news[j] = Silent
      BY <1>1, <2>2
    <3> QED BY <1>1, <2>2, <3>1, <3>2 DEF Heard
  <2> QED BY <2>1, <2>2
<1>2. ASSUME \A i \in 1..(n + 1) : longer[i] = Silent
      PROVE  was = now
  BY <1>2 DEF Heard
<1> QED BY <1>1, <1>2 DEF Heard

(* The first is taken in; or taken in and still there.                     *)
LEMMA HeardLess ==
    ASSUME NEW n \in Nat, n >= 1, NEW news, NEW was, NEW is, NEW now,
           now = IF news[1] = Silent THEN was ELSE news[1],
           Heard(news, n, was, is)
    PROVE  /\ Heard(news, n, now, is)
           /\ \A shorter : (\A i \in 1..(n - 1) : shorter[i] = news[i + 1]) =>
                 Heard(shorter, n - 1, now, is)
<1>1. Heard(news, n, now, is)
  BY DEF Heard
<1>2. ASSUME NEW shorter, \A i \in 1..(n - 1) : shorter[i] = news[i + 1]
      PROVE  Heard(shorter, n - 1, now, is)
  <2>1. ASSUME NEW i \in 1..(n - 1), shorter[i] # Silent, \A j \in (i + 1)..(n - 1) : shorter[j] = Silent
        PROVE  shorter[i] = is
    <3>1. \A j \in (i + 2)..n : news[j] = Silent
      <4> TAKE j \in (i + 2)..n
      <4>1. j - 1 \in (i + 1)..(n - 1) /\ (j - 1) + 1 = j
        OBVIOUS
      <4>2. shorter[j - 1] = news[(j - 1) + 1]
        BY <1>2, <4>1
      <4> QED BY <2>1, <4>1, <4>2
    <3>2. news[i + 1] # Silent /\ i + 1 \in 1..n
      BY <1>2, <2>1
    <3> QED BY <1>2, <3>1, <3>2 DEF Heard
  <2>2. ASSUME \A i \in 1..(n - 1) : shorter[i] = Silent
        PROVE  now = is
    <3>1. \A j \in 2..n : news[j] = Silent
      <4> TAKE j \in 2..n
      <4>1. j - 1 \in 1..(n - 1) /\ (j - 1) + 1 = j
        OBVIOUS
      <4> QED BY <1>2, <2>2, <4>1
    <3>2. CASE news[1] = Silent
      <4>1. \A j \in 1..n : news[j] = Silent
        BY <3>1, <3>2
      <4> QED BY <3>2, <4>1 DEF Heard
    <3>3. CASE news[1] # Silent
      BY <3>1, <3>3 DEF Heard
    <3> QED BY <3>2, <3>3
  <2> QED BY <2>1, <2>2 DEF Heard
<1> QED BY <1>1, <1>2

(* The last one says what is so, whatever was said before.                 *)
LEMMA HeardAnew ==
    ASSUME NEW n \in Nat, NEW news, NEW was, NEW is, news[n + 1] = is, is # Silent
    PROVE  Heard(news, n + 1, was, is)
<1>1. n + 1 \in 1..(n + 1) /\ \A i \in 1..n : n + 1 \in (i + 1)..(n + 1)
  OBVIOUS
<1>2. \A i \in 1..(n + 1) : i = n + 1 \/ i \in 1..n
  OBVIOUS
<1> QED BY <1>1, <1>2 DEF Heard

RoleHistory(r) == [i \in 1..Len(feed) |-> RoleNews(feed[i], r)]
ChannelHistory(c) == [i \in 1..Len(feed) |-> ChannelNews(feed[i], c)]

(* What the cache has, or will be built from.                              *)
RoleWas(r) == IF phase = "loading" THEN first.info.roles[r] ELSE roles[r]
ChannelWas(c) == IF phase = "loading" THEN first.info.channels[c] ELSE channels[c]

(* The inductive invariant.                                                *)
Directory ==
    phase # "failed" =>
        /\ \A r \in Roles : Heard(RoleHistory(r), Len(feed), RoleWas(r), guild.roles[r])
        /\ \A c \in Channels : Heard(ChannelHistory(c), Len(feed), ChannelWas(c), guild.channels[c])

(* Every handler does to roles and channels what the event tells.          *)
Digests ==
    /\ phase = "running" /\ phase' = "running" /\ guild' = guild
    /\ feed # <<>> /\ (feed' = Tail(feed) \/ feed' = feed)
    /\ \A r \in Roles : roles'[r] = IF RoleNews(feed[1], r) = Silent THEN roles[r]
                                    ELSE RoleNews(feed[1], r)
    /\ \A c \in Channels : channels'[c] = IF ChannelNews(feed[1], c) = Silent THEN channels[c]
                                          ELSE ChannelNews(feed[1], c)

LEMMA OtherDigests ==
    ASSUME TypeOK, NEW type, Next1(type), roles' = roles, channels' = channels,
           type \notin {"create", "update", "role", "role delete", "channel", "channel delete"}
    PROVE  Digests
<1>1. /\ \A r \in Roles : RoleNews(feed[1], r) = Silent
      /\ \A c \in Channels : ChannelNews(feed[1], c) = Silent
  BY DEF RoleNews, ChannelNews, Next1
<1> QED BY <1>1 DEF Digests, Next1, worldVars

LEMMA WholeDigests ==
    ASSUME TypeOK, NEW type, Next1(type), type \in {"create", "update"},
           roles' = feed[1].info.roles, channels' = feed[1].info.channels
    PROVE  Digests
<1>1. /\ \A r \in Roles : RoleNews(feed[1], r) = feed[1].info.roles[r]
      /\ \A c \in Channels : ChannelNews(feed[1], c) = feed[1].info.channels[c]
  BY DEF RoleNews, ChannelNews, Next1
<1>2. /\ \A r \in Roles : feed[1].info.roles[r] # Silent
      /\ \A c \in Channels : feed[1].info.channels[c] # Silent
  <2>1. feed[1].info \in Info
    BY EventType
  <2> QED BY <2>1 DEF Info, Versioned, Silent
<1> QED BY <1>1, <1>2 DEF Digests, Next1, worldVars

LEMMA HandledDigests == ASSUME TypeOK, Handled PROVE Digests
<1>1. CASE GuildCreate
  BY <1>1, WholeDigests DEF GuildCreate, Update
<1>2. CASE GuildUpdate
  BY <1>2, WholeDigests DEF GuildUpdate, Update
<1>3. CASE GuildMemberAdd
  BY <1>3, OtherDigests DEF GuildMemberAdd
<1>4. CASE GuildMemberUpdate
  BY <1>4, OtherDigests DEF GuildMemberUpdate
<1>5. CASE GuildMemberRemove
  BY <1>5, OtherDigests DEF GuildMemberRemove
<1>6. CASE GuildMembersChunk
  BY <1>6, OtherDigests DEF GuildMembersChunk
<1>7. CASE GuildRoleSet
  <2>1. /\ \A r \in Roles : RoleNews(feed[1], r) = IF r = feed[1].role THEN feed[1].version ELSE Silent
        /\ \A c \in Channels : ChannelNews(feed[1], c) = Silent
    BY <1>7 DEF GuildRoleSet, RoleNews, ChannelNews, Next1
  <2>2. feed[1].version # Silent
    BY <1>7, EventType, VersionsSpeak DEF GuildRoleSet
  <2>3. \A r \in Roles : roles'[r] = IF r = feed[1].role THEN feed[1].version ELSE roles[r]
    BY <1>7 DEF GuildRoleSet, TypeOK, Versioned
  <2> QED BY <1>7, <2>1, <2>2, <2>3 DEF Digests, GuildRoleSet, Next1, worldVars
<1>8. CASE GuildRoleDelete
  <2>1. /\ \A r \in Roles : RoleNews(feed[1], r) = IF r = feed[1].role THEN 0 ELSE Silent
        /\ \A c \in Channels : ChannelNews(feed[1], c) = Silent
    BY <1>8 DEF GuildRoleDelete, RoleNews, ChannelNews, Next1
  <2>2. \A r \in Roles : roles'[r] = IF r = feed[1].role THEN 0 ELSE roles[r]
    BY <1>8 DEF GuildRoleDelete, TypeOK, Versioned
  <2> QED BY <1>8, <2>1, <2>2, NothingSpeaks DEF Digests, GuildRoleDelete, Next1, worldVars
<1>9. CASE ChannelSet
  <2>1. /\ \A c \in Channels :
              ChannelNews(feed[1], c) = IF c = feed[1].channel THEN feed[1].version ELSE Silent
        /\ \A r \in Roles : RoleNews(feed[1], r) = Silent
    BY <1>9 DEF ChannelSet, RoleNews, ChannelNews, Next1
  <2>2. feed[1].version # Silent
    BY <1>9, EventType, VersionsSpeak DEF ChannelSet
  <2>3. \A c \in Channels : channels'[c] = IF c = feed[1].channel THEN feed[1].version ELSE channels[c]
    BY <1>9 DEF ChannelSet, TypeOK, Versioned
  <2> QED BY <1>9, <2>1, <2>2, <2>3 DEF Digests, ChannelSet, Next1, worldVars
<1>10. CASE ChannelDelete
  <2>1. /\ \A c \in Channels : ChannelNews(feed[1], c) = IF c = feed[1].channel THEN 0 ELSE Silent
        /\ \A r \in Roles : RoleNews(feed[1], r) = Silent
    BY <1>10 DEF ChannelDelete, RoleNews, ChannelNews, Next1
  <2>2. \A c \in Channels : channels'[c] = IF c = feed[1].channel THEN 0 ELSE channels[c]
    BY <1>10 DEF ChannelDelete, ChannelRemoved, TypeOK, Versioned
  <2> QED BY <1>10, <2>1, <2>2, NothingSpeaks DEF Digests, ChannelDelete, Next1, worldVars
<1>11. CASE CommandSet
  BY <1>11, OtherDigests DEF CommandSet
<1>12. CASE CommandDelete
  BY <1>12, OtherDigests DEF CommandDelete
<1> QED BY <1>1, <1>2, <1>3, <1>4, <1>5, <1>6, <1>7, <1>8, <1>9, <1>10, <1>11, <1>12 DEF Handled

(* What is taken in was told.                                              *)
LEMMA DigestsDirectory == ASSUME TypeOK, Directory, Digests PROVE Directory'
<1>1. Len(feed) \in Nat /\ Len(feed) >= 1
  BY DEF TypeOK, Digests
<1>2. ASSUME NEW r \in Roles
      PROVE  Heard(RoleHistory(r)', Len(feed'), RoleWas(r)', guild'.roles[r])
  <2>1. Heard(RoleHistory(r), Len(feed), RoleWas(r), guild.roles[r])
    BY DEF Directory, Digests
  <2>2. RoleHistory(r)[1] = RoleNews(feed[1], r)
    BY <1>1 DEF RoleHistory
  <2>3. RoleWas(r) = roles[r] /\ RoleWas(r)' = roles'[r]
    BY DEF RoleWas, Digests
  <2>4. RoleWas(r)' = IF RoleHistory(r)[1] = Silent THEN RoleWas(r) ELSE RoleHistory(r)[1]
    BY <2>2, <2>3 DEF Digests
  <2>5. CASE feed' = feed
    <3>1. RoleHistory(r)' = RoleHistory(r) /\ Len(feed') = Len(feed)
      BY <2>5 DEF RoleHistory
    <3> QED BY <1>1, <2>1, <2>4, <3>1, HeardLess DEF Digests
  <2>6. CASE feed' = Tail(feed)
    <3>1. /\ Len(feed') = Len(feed) - 1
          /\ \A i \in 1..(Len(feed) - 1) : feed'[i] = feed[i + 1]
      BY <2>6 DEF TypeOK, Digests
    <3>2. \A i \in 1..(Len(feed) - 1) : RoleHistory(r)'[i] = RoleHistory(r)[i + 1]
      BY <1>1, <3>1 DEF RoleHistory
    <3>3. \A shorter : (\A i \in 1..(Len(feed) - 1) : shorter[i] = RoleHistory(r)[i + 1]) =>
             Heard(shorter, Len(feed) - 1, RoleWas(r)', guild.roles[r])
      BY <1>1, <2>1, <2>4, HeardLess
    <3>4. Heard(RoleHistory(r)', Len(feed) - 1, RoleWas(r)', guild.roles[r])
      BY <3>2, <3>3
    <3> QED BY <3>1, <3>4 DEF Digests
  <2> QED BY <2>5, <2>6 DEF Digests
<1>3. ASSUME NEW c \in Channels
      PROVE  Heard(ChannelHistory(c)', Len(feed'), ChannelWas(c)', guild'.channels[c])
  <2>1. Heard(ChannelHistory(c), Len(feed), ChannelWas(c), guild.channels[c])
    BY DEF Directory, Digests
  <2>2. ChannelHistory(c)[1] = ChannelNews(feed[1], c)
    BY <1>1 DEF ChannelHistory
  <2>3. ChannelWas(c) = channels[c] /\ ChannelWas(c)' = channels'[c]
    BY DEF ChannelWas, Digests
  <2>4. ChannelWas(c)' = IF ChannelHistory(c)[1] = Silent THEN ChannelWas(c) ELSE ChannelHistory(c)[1]
    BY <2>2, <2>3 DEF Digests
  <2>5. CASE feed' = feed
    <3>1. ChannelHistory(c)' = ChannelHistory(c) /\ Len(feed') = Len(feed)
      BY <2>5 DEF ChannelHistory
    <3> QED BY <1>1, <2>1, <2>4, <3>1, HeardLess DEF Digests
  <2>6. CASE feed' = Tail(feed)
    <3>1. /\ Len(feed') = Len(feed) - 1
          /\ \A i \in 1..(Len(feed) - 1) : feed'[i] = feed[i + 1]
      BY <2>6 DEF TypeOK, Digests
    <3>2. \A i \in 1..(Len(feed) - 1) : ChannelHistory(c)'[i] = ChannelHistory(c)[i + 1]
      BY <1>1, <3>1 DEF ChannelHistory
    <3>3. \A shorter : (\A i \in 1..(Len(feed) - 1) : shorter[i] = ChannelHistory(c)[i + 1]) =>
             Heard(shorter, Len(feed) - 1, ChannelWas(c)', guild.channels[c])
      BY <1>1, <2>1, <2>4, HeardLess
    <3>4. Heard(ChannelHistory(c)', Len(feed) - 1, ChannelWas(c)', guild.channels[c])
      BY <3>2, <3>3
    <3> QED BY <3>1, <3>4 DEF Digests
  <2> QED BY <2>5, <2>6 DEF Digests
<1> QED BY <1>2, <1>3 DEF Directory

(* What is reported is told.                                               *)
LEMMA ReportDirectory ==
    ASSUME TypeOK, Directory, phase' = phase, first' = first, roles' = roles, channels' = channels,
           NEW e \in Events, Report(e), Truthful(guild', e)
    PROVE  Directory'
<1> SUFFICES ASSUME phase # "failed" PROVE Directory'
  BY DEF Directory
<1>1. /\ Len(feed) \in Nat /\ Len(feed') = Len(feed) + 1
      /\ \A i \in 1..Len(feed) : feed'[i] = feed[i]
      /\ feed'[Len(feed) + 1] = e
  BY DEF TypeOK, Report
<1>2. ASSUME NEW r \in Roles
      PROVE  Heard(RoleHistory(r)', Len(feed'), RoleWas(r)', guild'.roles[r])
  <2>1. Heard(RoleHistory(r), Len(feed), RoleWas(r), guild.roles[r])
    BY DEF Directory
  <2>2. /\ \A i \in 1..Len(feed) : RoleHistory(r)'[i] = RoleHistory(r)[i]
        /\ RoleHistory(r)'[Len(feed) + 1] = RoleNews(e, r)
    BY <1>1 DEF RoleHistory
  <2>3. RoleWas(r)' = RoleWas(r)
    BY DEF RoleWas
  <2>4. guild'.roles[r] = IF RoleNews(e, r) = Silent THEN guild.roles[r] ELSE RoleNews(e, r)
    BY DEF Truthful
  <2>5. Heard(RoleHistory(r)', Len(feed) + 1, RoleWas(r), guild'.roles[r])
    BY <1>1, <2>1, <2>2, <2>4, HeardMore
  <2> QED BY <1>1, <2>3, <2>5
<1>3. ASSUME NEW c \in Channels
      PROVE  Heard(ChannelHistory(c)', Len(feed'), ChannelWas(c)', guild'.channels[c])
  <2>1. Heard(ChannelHistory(c), Len(feed), ChannelWas(c), guild.channels[c])
    BY DEF Directory
  <2>2. /\ \A i \in 1..Len(feed) : ChannelHistory(c)'[i] = ChannelHistory(c)[i]
        /\ ChannelHistory(c)'[Len(feed) + 1] = ChannelNews(e, c)
    BY <1>1 DEF ChannelHistory
  <2>3. ChannelWas(c)' = ChannelWas(c)
    BY DEF ChannelWas
  <2>4. guild'.channels[c] = IF ChannelNews(e, c) = Silent THEN guild.channels[c]
                             ELSE ChannelNews(e, c)
    BY DEF Truthful
  <2>5. Heard(ChannelHistory(c)', Len(feed) + 1, ChannelWas(c), guild'.channels[c])
    BY <1>1, <2>1, <2>2, <2>4, HeardMore
  <2> QED BY <1>1, <2>3, <2>5
<1> QED BY <1>2, <1>3 DEF Directory

(* The new session's GuildCreate tells everything anew.                    *)
LEMMA LossDirectory == ASSUME TypeOK, Directory, SessionLost PROVE Directory'
<1>0. PICK k \in 0..Len(feed), S \in SUBSET Users : feed' = Append(SubSeq(feed, 1, k), Create(guild, S))
  BY DEF SessionLost
<1>1. feed \in Seq(Events) /\ guild \in GuildState
  BY DEF TypeOK
<1>2. Create(guild, S) \in Events
  BY <1>1, CreateType DEF Events
<1>3. k \in Nat /\ Len(feed') = k + 1 /\ feed'[k + 1] = Create(guild, S)
  BY <1>0, <1>1, <1>2, CutFeed
<1>4. guild' = guild
  BY DEF SessionLost
<1>5. ASSUME NEW r \in Roles
      PROVE  Heard(RoleHistory(r)', Len(feed'), RoleWas(r)', guild'.roles[r])
  <2>1. RoleHistory(r)'[k + 1] = guild.roles[r]
    <3>1. RoleHistory(r)'[k + 1] = RoleNews(Create(guild, S), r)
      BY <1>3 DEF RoleHistory
    <3>2. RoleNews(Create(guild, S), r) = guild.roles[r]
      BY DEF RoleNews, Create, InfoOf
    <3> QED BY <3>1, <3>2
  <2>2. guild.roles[r] # Silent
    BY <1>1, NothingSpeaks, VersionsSpeak DEF GuildState, Versioned
  <2> QED BY <1>3, <1>4, <2>1, <2>2, HeardAnew
<1>6. ASSUME NEW c \in Channels
      PROVE  Heard(ChannelHistory(c)', Len(feed'), ChannelWas(c)', guild'.channels[c])
  <2>1. ChannelHistory(c)'[k + 1] = guild.channels[c]
    <3>1. ChannelHistory(c)'[k + 1] = ChannelNews(Create(guild, S), c)
      BY <1>3 DEF ChannelHistory
    <3>2. ChannelNews(Create(guild, S), c) = guild.channels[c]
      BY DEF ChannelNews, Create, InfoOf
    <3> QED BY <3>1, <3>2
  <2>2. guild.channels[c] # Silent
    BY <1>1, NothingSpeaks, VersionsSpeak DEF GuildState, Versioned
  <2> QED BY <1>3, <1>4, <2>1, <2>2, HeardAnew
<1> QED BY <1>5, <1>6 DEF Directory

(* The first GuildCreate becomes the cache.                                *)
LEMMA LoadDirectory == ASSUME TypeOK, Directory, Load PROVE Directory'
<1>1. /\ phase = "loading" /\ phase' = "running" /\ feed' = feed /\ guild' = guild
      /\ roles' = first.info.roles /\ channels' = first.info.channels
  BY DEF Load, Update, worldVars
<1>2. \A r \in Roles : RoleHistory(r)' = RoleHistory(r) /\ RoleWas(r)' = RoleWas(r)
  BY <1>1 DEF RoleHistory, RoleWas
<1>3. \A c \in Channels : ChannelHistory(c)' = ChannelHistory(c) /\ ChannelWas(c)' = ChannelWas(c)
  BY <1>1 DEF ChannelHistory, ChannelWas
<1> QED BY <1>1, <1>2, <1>3 DEF Directory

LEMMA InitDirectory == Init => Directory
<1> SUFFICES ASSUME Init PROVE Directory
  OBVIOUS
<1>1. Len(feed) = 0
  BY DEF Init
<1>2. PICK S \in SUBSET Users : first = Create(guild, S)
  BY DEF Init
<1>3. \A r : RoleWas(r) = guild.roles[r]
  BY <1>2 DEF Init, RoleWas, Create, InfoOf
<1>4. \A c : ChannelWas(c) = guild.channels[c]
  BY <1>2 DEF Init, ChannelWas, Create, InfoOf
<1> QED BY <1>1, <1>3, <1>4 DEF Directory, Heard

LEMMA NextDirectory == TypeOK /\ Directory /\ [Next]_vars => Directory'
<1> SUFFICES ASSUME TypeOK, Directory, [Next]_vars PROVE Directory'
  OBVIOUS
<1>1. CASE Handled
  BY <1>1, HandledDigests, DigestsDirectory
<1>2. CASE Changes
  <2>1. PICK new \in GuildState, e \in Events : Change(new, e) /\ Truthful(new, e)
    BY <1>2, ChangesTell DEF Tells
  <2> QED BY <2>1, ReportDirectory DEF Change, cacheVars
<1>3. CASE AnswerRequest
  <2> DEFINE e == [type |-> "chunk", members |-> guild.members]
  <2>1. e \in Events
    BY DEF TypeOK, GuildState, Events
  <2>2. Truthful(guild', e)
    BY <1>3 DEF AnswerRequest, worldVars, Truthful, RoleNews, ChannelNews
  <2> QED BY <1>3, <2>1, <2>2, ReportDirectory DEF AnswerRequest, cacheVars
<1>4. CASE LoadFails
  BY <1>4 DEF LoadFails, Directory
<1>5. CASE UNCHANGED vars
  BY <1>5 DEF vars, cacheVars, worldVars, Directory, RoleHistory, ChannelHistory, RoleWas, ChannelWas
<1> QED BY <1>1, <1>2, <1>3, <1>4, <1>5, LoadDirectory, LossDirectory
        DEF Next, Discord, Quiet, Changes

(* When every event was handled the cache has Discord's roles and          *)
(* channels, through any number of changes, repeated events and lost       *)
(* sessions (guild.rs:33-43, 231-261).                                     *)
THEOREM DirectoryConverges == Spec => []DirectoryAgrees
<1>1. Init => TypeOK /\ Begun /\ Directory
  BY InitStarts, InitDirectory
<1>2. TypeOK /\ Begun /\ Directory /\ [Next]_vars => (TypeOK /\ Begun /\ Directory)'
  BY NextKeepsType, NextDirectory
<1>3. TypeOK /\ Directory => DirectoryAgrees
  <2> SUFFICES ASSUME TypeOK, Directory, Drained PROVE roles = guild.roles /\ channels = guild.channels
    BY DEF DirectoryAgrees
  <2>1. Len(feed) = 0 /\ phase = "running"
    BY DEF Drained
  <2>2. \A r \in Roles : roles[r] = guild.roles[r]
    BY <2>1 DEF Directory, Heard, RoleWas
  <2>3. \A c \in Channels : channels[c] = guild.channels[c]
    BY <2>1 DEF Directory, Heard, ChannelWas
  <2> QED BY <2>2, <2>3 DEF TypeOK, GuildState, Versioned
<1> QED BY <1>1, <1>2, <1>3, PTL DEF Spec

-----------------------------------------------------------------------------
(* Commands.                                                               *)

(* What an event tells of whether a command is found by a name, as 1 or 0. *)
Flag(yes) == IF yes THEN 1 ELSE 0

CommandNews(e, n, c) ==
    CASE e.type = "command" /\ e.name = n -> Flag(e.command = c)
      [] e.type = "command delete" /\ e.name = n -> 0
      [] OTHER -> Silent

NameHistory(n, c) == [i \in 1..Len(feed) |-> CommandNews(feed[i], n, c)]

(* The commands are fetched when the cache is built: until then it is as   *)
(* if it had what Discord has.                                             *)
Named(n, c) == Flag(guild.commands[c] = n)
NameWas(n, c) == IF phase = "loading" THEN Named(n, c) ELSE Flag(commands[n] = c)

(* A name that a renamed command left behind is nobody's, and its last     *)
(* news are wrong; every other name's are right.                           *)
Owned(n) == \E c \in Commands : guild.commands[c] = n
Settled(n) == Owned(n) \/ ~renamed

NameHeard(n, c) == Heard(NameHistory(n, c), Len(feed), NameWas(n, c), Named(n, c))

(* The inductive invariant: names are unique, and as long as no change of  *)
(* a command was lost, the last event under way about a settled name, or   *)
(* the cache when there is none, tells whose it is.  This holds although   *)
(* the list fetched is newer than the oldest events under way.             *)
Naming ==
    /\ Injective(guild.commands)
    /\ phase # "failed" /\ ~stale =>
          \A n \in Names, c \in Commands : Settled(n) => NameHeard(n, c)

LEMMA FlagSpeaks == ASSUME NEW yes PROVE Flag(yes) # Silent
  BY DEF Flag, Silent

(* The rest of a history is silent, and cut off.                           *)
LEMMA HeardCut ==
    ASSUME NEW n \in Nat, NEW k \in 0..n, NEW news, NEW shorter, NEW was, NEW is,
           \A i \in 1..k : shorter[i] = news[i],
           \A i \in (k + 1)..n : news[i] = Silent,
           Heard(news, n, was, is)
    PROVE  Heard(shorter, k, was, is)
<1>1. ASSUME NEW i \in 1..k, shorter[i] # Silent, \A j \in (i + 1)..k : shorter[j] = Silent
      PROVE  shorter[i] = is
  <2>1. \A j \in (i + 1)..n : j \in (i + 1)..k \/ j \in (k + 1)..n
    OBVIOUS
  <2>2. \A j \in (i + 1)..k : j \in 1..k
    OBVIOUS
  <2>3. \A j \in (i + 1)..n : news[j] = Silent
    BY <1>1, <2>1, <2>2
  <2>4. i \in 1..n
    OBVIOUS
  <2> QED BY <1>1, <2>3, <2>4 DEF Heard
<1>2. ASSUME \A i \in 1..k : shorter[i] = Silent PROVE was = is
  <2>1. \A i \in 1..n : i \in 1..k \/ i \in (k + 1)..n
    OBVIOUS
  <2> QED BY <1>2, <2>1 DEF Heard
<1> QED BY <1>1, <1>2 DEF Heard

(* Every handler does to the commands what the event tells.                *)
Files ==
    /\ phase = "running" /\ UNCHANGED <<phase, guild, renamed, stale>>
    /\ feed # <<>> /\ (feed' = Tail(feed) \/ feed' = feed)
    /\ \A n \in Names, c \in Commands :
          Flag(commands'[n] = c) = IF CommandNews(feed[1], n, c) = Silent THEN Flag(commands[n] = c)
                                   ELSE CommandNews(feed[1], n, c)

(* An event that is about no command leaves the commands as they are.      *)
LEMMA OtherFiles ==
    ASSUME TypeOK, NEW type, Next1(type), commands' = commands,
           type \notin {"command", "command delete"}
    PROVE  Files
<1>1. \A n \in Names, c \in Commands : CommandNews(feed[1], n, c) = Silent
  BY DEF CommandNews, Next1
<1> QED BY <1>1 DEF Files, Next1, worldVars, lossVars

LEMMA HandledFiles == ASSUME TypeOK, Handled PROVE Files
<1>1. CASE CommandSet
  <2>1. \A n \in Names, c \in Commands :
           CommandNews(feed[1], n, c) = IF n = feed[1].name THEN Flag(feed[1].command = c) ELSE Silent
    BY <1>1 DEF CommandSet, CommandNews, Next1
  <2>2. \A n \in Names : commands'[n] = IF n = feed[1].name THEN feed[1].command ELSE commands[n]
    BY <1>1 DEF CommandSet, Inserted, TypeOK
  <2>3. \A n \in Names, c \in Commands :
           Flag(commands'[n] = c) = IF CommandNews(feed[1], n, c) = Silent THEN Flag(commands[n] = c)
                                    ELSE CommandNews(feed[1], n, c)
    BY <2>1, <2>2 DEF Flag, Silent
  <2> QED BY <1>1, <2>3 DEF Files, CommandSet, Next1, worldVars, lossVars
<1>2. CASE CommandDelete
  <2>1. \A n \in Names, c \in Commands :
           CommandNews(feed[1], n, c) = IF n = feed[1].name THEN 0 ELSE Silent
    BY <1>2 DEF CommandDelete, CommandNews, Next1
  <2>2. \A n \in Names : commands'[n] = IF n = feed[1].name THEN Absent ELSE commands[n]
    BY <1>2 DEF CommandDelete, TypeOK
  <2>3. \A c \in Commands : Absent # c
    OBVIOUS
  <2>4. \A n \in Names, c \in Commands :
           Flag(commands'[n] = c) = IF CommandNews(feed[1], n, c) = Silent THEN Flag(commands[n] = c)
                                    ELSE CommandNews(feed[1], n, c)
    BY <2>1, <2>2, <2>3, NothingSpeaks DEF Flag
  <2> QED BY <1>2, <2>4 DEF Files, CommandDelete, Next1, worldVars, lossVars
<1>3. ASSUME NEW type, Next1(type), commands' = commands, type \notin {"command", "command delete"}
      PROVE  Files
  BY <1>3, OtherFiles
<1>4. CASE GuildCreate \/ GuildUpdate
  BY <1>3, <1>4 DEF GuildCreate, GuildUpdate
<1>5. CASE GuildMemberAdd \/ GuildMemberUpdate \/ GuildMemberRemove \/ GuildMembersChunk
  BY <1>3, <1>5 DEF GuildMemberAdd, GuildMemberUpdate, GuildMemberRemove, GuildMembersChunk
<1>6. CASE GuildRoleSet \/ GuildRoleDelete \/ ChannelSet \/ ChannelDelete
  BY <1>3, <1>6 DEF GuildRoleSet, GuildRoleDelete, ChannelSet, ChannelDelete
<1> QED BY <1>1, <1>2, <1>4, <1>5, <1>6 DEF Handled

(* What is taken in was told.                                              *)
LEMMA FilesNaming == ASSUME TypeOK, Naming, Files PROVE Naming'
<1>1. Len(feed) \in Nat /\ Len(feed) >= 1
  BY DEF TypeOK, Files
<1>2. Injective(guild.commands)'
  BY DEF Naming, Files
<1>3. ASSUME ~stale', NEW n \in Names, NEW c \in Commands, Settled(n)'
      PROVE  NameHeard(n, c)'
  <2>0. Settled(n)' = Settled(n) /\ Named(n, c)' = Named(n, c)
    BY DEF Files, Settled, Owned, Named
  <2>1. Heard(NameHistory(n, c), Len(feed), NameWas(n, c), Named(n, c))
    BY <1>3, <2>0 DEF Naming, Files, NameHeard
  <2>2. NameHistory(n, c)[1] = CommandNews(feed[1], n, c)
    BY <1>1 DEF NameHistory
  <2>3. NameWas(n, c) = Flag(commands[n] = c) /\ NameWas(n, c)' = Flag(commands'[n] = c)
    BY DEF NameWas, Files
  <2>4. NameWas(n, c)' = IF NameHistory(n, c)[1] = Silent THEN NameWas(n, c) ELSE NameHistory(n, c)[1]
    BY <2>2, <2>3 DEF Files
  <2>5. CASE feed' = feed
    <3>1. NameHistory(n, c)' = NameHistory(n, c) /\ Len(feed') = Len(feed)
      BY <2>5 DEF NameHistory
    <3> QED BY <1>1, <2>0, <2>1, <2>4, <3>1, HeardLess DEF NameHeard
  <2>6. CASE feed' = Tail(feed)
    <3>1. /\ Len(feed') = Len(feed) - 1
          /\ \A i \in 1..(Len(feed) - 1) : feed'[i] = feed[i + 1]
      BY <2>6 DEF TypeOK, Files
    <3>2. \A i \in 1..(Len(feed) - 1) : NameHistory(n, c)'[i] = NameHistory(n, c)[i + 1]
      BY <1>1, <3>1 DEF NameHistory
    <3>3. \A shorter : (\A i \in 1..(Len(feed) - 1) : shorter[i] = NameHistory(n, c)[i + 1]) =>
             Heard(shorter, Len(feed) - 1, NameWas(n, c)', Named(n, c))
      BY <1>1, <2>1, <2>4, HeardLess
    <3>4. Heard(NameHistory(n, c)', Len(feed) - 1, NameWas(n, c)', Named(n, c))
      BY <3>2, <3>3
    <3> QED BY <2>0, <3>1, <3>4 DEF NameHeard
  <2> QED BY <2>5, <2>6 DEF Files
<1> QED BY <1>2, <1>3, Zenon DEF Naming

(* What a report adds to a name's history.                                 *)
LEMMA ReportedName ==
    ASSUME TypeOK, phase # "failed", NEW e \in Events, Report(e),
           NEW n \in Names, NEW c \in Commands
    PROVE  /\ Len(feed) \in Nat /\ Len(feed') = Len(feed) + 1
           /\ \A i \in 1..Len(feed) : NameHistory(n, c)'[i] = NameHistory(n, c)[i]
           /\ NameHistory(n, c)'[Len(feed) + 1] = CommandNews(e, n, c)
<1>1. /\ Len(feed) \in Nat /\ Len(feed') = Len(feed) + 1
      /\ \A i \in 1..Len(feed) : feed'[i] = feed[i]
      /\ feed'[Len(feed) + 1] = e
  BY DEF TypeOK, Report
<1> QED BY <1>1 DEF NameHistory

(* The report is silent of a name, or tells whose it is now.               *)
LEMMA NameReported ==
    ASSUME TypeOK, phase # "failed", NEW e \in Events, Report(e), UNCHANGED <<phase, commands>>,
           NEW n \in Names, NEW c \in Commands,
           \/ CommandNews(e, n, c) = Named(n, c)'
           \/ CommandNews(e, n, c) = Silent /\ Named(n, c)' = Named(n, c) /\ NameHeard(n, c)
    PROVE  NameHeard(n, c)'
<1>1. /\ Len(feed) \in Nat /\ Len(feed') = Len(feed) + 1
      /\ \A i \in 1..Len(feed) : NameHistory(n, c)'[i] = NameHistory(n, c)[i]
      /\ NameHistory(n, c)'[Len(feed) + 1] = CommandNews(e, n, c)
  BY ReportedName
<1>2. CASE CommandNews(e, n, c) = Named(n, c)'
  <2>1. Named(n, c)' # Silent
    BY FlagSpeaks DEF Named
  <2> QED BY <1>1, <1>2, <2>1, HeardAnew DEF NameHeard
<1>3. CASE CommandNews(e, n, c) = Silent /\ Named(n, c)' = Named(n, c) /\ NameHeard(n, c)
  <2>1. NameWas(n, c)' = NameWas(n, c)
    BY <1>3 DEF NameWas
  <2>2. Heard(NameHistory(n, c)', Len(feed) + 1, NameWas(n, c), Named(n, c))
    BY <1>1, <1>3, HeardMore DEF NameHeard
  <2> QED BY <1>1, <1>3, <2>1, <2>2 DEF NameHeard
<1> QED BY <1>2, <1>3

(* An event of another kind.                                               *)
LEMMA OtherNaming ==
    ASSUME TypeOK, Naming, NEW e \in Events, Report(e),
           e.type \notin {"command", "command delete"},
           guild'.commands = guild.commands, UNCHANGED <<phase, commands, renamed, stale>>
    PROVE  Naming'
<1>1. Injective(guild.commands)'
  BY DEF Naming
<1>2. ASSUME phase # "failed", ~stale, NEW n \in Names, NEW c \in Commands, Settled(n)'
      PROVE  NameHeard(n, c)'
  <2>1. CommandNews(e, n, c) = Silent
    BY DEF CommandNews
  <2>2. Named(n, c)' = Named(n, c) /\ Settled(n)
    BY <1>2 DEF Named, Settled, Owned
  <2>3. NameHeard(n, c)
    BY <1>2, <2>2 DEF Naming
  <2> QED BY <1>2, <2>1, <2>2, <2>3, NameReported
<1> QED BY <1>1, <1>2, Zenon DEF Naming

(* A command gets a name that was nobody's; the one it had becomes         *)
(* nobody's, and is not settled any more.                                  *)
LEMMA NamedNaming == ASSUME TypeOK, Naming, CommandNamed PROVE Naming'
<1> PICK d \in Commands, m \in Names :
      /\ \A b \in Commands : guild.commands[b] # m
      /\ Change([guild EXCEPT !.commands[d] = m], [type |-> "command", command |-> d, name |-> m])
      /\ renamed' = (renamed \/ guild.commands[d] # Absent)
  BY DEF CommandNamed
<1> DEFINE e == [type |-> "command", command |-> d, name |-> m]
<1>1. e \in Events /\ Report(e) /\ UNCHANGED <<phase, commands, stale>>
  BY DEF Events, Change, cacheVars, lossVars
<1>2. guild.commands \in [Commands -> Names \cup {Absent}]
  BY DEF TypeOK, GuildState
<1>3. guild'.commands = [guild.commands EXCEPT ![d] = m]
  BY DEF Change, TypeOK, GuildState
<1>4. Injective(guild.commands)
  BY DEF Naming
<1>5. Injective(guild'.commands)
  BY <1>2, <1>3, <1>4 DEF Injective, Present
<1>6. \A n \in Names, c \in Commands : CommandNews(e, n, c) = IF n = m THEN Flag(d = c) ELSE Silent
  BY DEF CommandNews
<1> HIDE DEF e
<1>7. ASSUME phase # "failed", ~stale, NEW n \in Names, NEW c \in Commands, Settled(n)'
      PROVE  NameHeard(n, c)'
  <2>1. CASE n = m
    <3>1. CommandNews(e, n, c) = Named(n, c)'
      BY <1>2, <1>3, <1>6, <2>1 DEF Named, Flag
    <3> QED BY <1>1, <1>7, <3>1, NameReported
  <2>2. CASE n # m
    <3>1. guild.commands[d] # n
      <4>1. ASSUME guild.commands[d] = n PROVE FALSE
        <5>1. renamed'
          BY <4>1
        <5>2. PICK b \in Commands : guild'.commands[b] = n
          BY <1>7, <5>1 DEF Settled, Owned
        <5>3. b # d /\ guild.commands[b] = n
          BY <1>2, <1>3, <2>2, <5>2
        <5> QED BY <1>2, <1>4, <4>1, <5>3 DEF Injective, Present
      <4> QED BY <4>1
    <3>2. \A b \in Commands : guild'.commands[b] = n <=> guild.commands[b] = n
      BY <1>2, <1>3, <2>2, <3>1
    <3>3. Named(n, c)' = Named(n, c)
      BY <3>2 DEF Named, Flag
    <3>4. Settled(n)
      BY <1>7, <3>2 DEF Settled, Owned
    <3>5. NameHeard(n, c)
      BY <1>7, <3>4 DEF Naming
    <3>6. CommandNews(e, n, c) = Silent
      BY <1>6, <2>2
    <3> QED BY <1>1, <1>7, <3>3, <3>5, <3>6, NameReported
  <2> QED BY <2>1, <2>2
<1> QED BY <1>1, <1>5, <1>7, Zenon DEF Naming

(* A command is deleted, and its name becomes nobody's.                    *)
LEMMA DeletedNaming == ASSUME TypeOK, Naming, CommandDeleted PROVE Naming'
<1> PICK d \in Present(guild.commands) :
      Change([guild EXCEPT !.commands[d] = Absent],
             [type |-> "command delete", command |-> d, name |-> guild.commands[d]])
  BY DEF CommandDeleted
<1> DEFINE m == guild.commands[d]
           e == [type |-> "command delete", command |-> d, name |-> m]
<1>1. guild.commands \in [Commands -> Names \cup {Absent}]
  BY DEF TypeOK, GuildState
<1>2. d \in Commands /\ m \in Names
  BY <1>1 DEF Present
<1>3. e \in Events /\ Report(e) /\ UNCHANGED <<phase, commands, stale, renamed>>
  BY <1>2 DEF Events, Change, cacheVars, lossVars, CommandDeleted
<1>4. guild'.commands = [guild.commands EXCEPT ![d] = Absent]
  BY DEF Change, TypeOK, GuildState
<1>5. Injective(guild.commands)
  BY DEF Naming
<1>6. Injective(guild'.commands)
  <2>1. DOMAIN guild'.commands = Commands /\ DOMAIN guild.commands = Commands
    BY <1>1, <1>4
  <2>2. \A b \in Present(guild'.commands) :
           b \in Present(guild.commands) /\ guild'.commands[b] = guild.commands[b]
    BY <1>1, <1>4, <2>1 DEF Present
  <2> QED BY <1>5, <2>2 DEF Injective
<1>7. \A n \in Names, c \in Commands : CommandNews(e, n, c) = IF n = m THEN 0 ELSE Silent
  BY DEF CommandNews
<1>8. \A b \in Commands : guild.commands[b] = m => b = d
  BY <1>1, <1>2, <1>5 DEF Injective, Present
<1> HIDE DEF e
<1>9. ASSUME phase # "failed", ~stale, NEW n \in Names, NEW c \in Commands, Settled(n)'
      PROVE  NameHeard(n, c)'
  <2>1. CASE n = m
    <3>1. guild'.commands[c] # n
      BY <1>1, <1>2, <1>4, <1>8, <2>1
    <3>2. CommandNews(e, n, c) = Named(n, c)'
      BY <1>7, <2>1, <3>1 DEF Named, Flag
    <3> QED BY <1>3, <1>9, <3>2, NameReported
  <2>2. CASE n # m
    <3>1. \A b \in Commands : guild'.commands[b] = n <=> guild.commands[b] = n
      BY <1>1, <1>2, <1>4, <2>2
    <3>2. Named(n, c)' = Named(n, c)
      BY <3>1 DEF Named, Flag
    <3>3. Settled(n)
      BY <1>3, <1>9, <3>1 DEF Settled, Owned
    <3>4. NameHeard(n, c)
      BY <1>9, <3>3 DEF Naming
    <3>5. CommandNews(e, n, c) = Silent
      BY <1>7, <2>2
    <3> QED BY <1>3, <1>9, <3>2, <3>4, <3>5, NameReported
  <2> QED BY <2>1, <2>2
<1> QED BY <1>3, <1>6, <1>9, Zenon DEF Naming

(* What is cut off told of no command, or commands are stale; the          *)
(* GuildCreate tells nothing of them.                                      *)
LEMMA LossNaming == ASSUME TypeOK, Naming, SessionLost PROVE Naming'
<1>0. PICK k \in 0..Len(feed), S \in SUBSET Users :
      LET cut == {feed[i] : i \in (k + 1)..Len(feed)} IN
      /\ feed' = Append(SubSeq(feed, 1, k), Create(guild, S))
      /\ stale' = (stale \/ \E e \in cut : e.type \in {"command", "command delete"})
  BY DEF SessionLost
<1>1. feed \in Seq(Events) /\ guild \in GuildState
  BY DEF TypeOK
<1>2. Create(guild, S) \in Events
  BY <1>1, CreateType DEF Events
<1>3. /\ k \in Nat /\ Len(feed) \in Nat /\ Len(feed') = k + 1
      /\ feed'[k + 1] = Create(guild, S)
      /\ \A i \in 1..k : feed'[i] = feed[i]
  <2>0. feed' = Append(SubSeq(feed, 1, k), Create(guild, S))
    BY <1>0
  <2>1. feed' \in Seq(Events) /\ Len(feed') = k + 1 /\ feed'[k + 1] = Create(guild, S)
    BY <2>0, <1>1, <1>2, CutFeed
  <2>2. \A i \in 1..k : feed'[i] = feed[i]
    BY <2>0, <1>1, <1>2, CutFeedStart
  <2> QED BY <1>1, <2>1, <2>2
<1>4. /\ UNCHANGED <<phase, commands, guild, renamed>> /\ phase # "failed"
  BY DEF SessionLost, cacheVars
<1>5. Injective(guild.commands)'
  BY <1>4 DEF Naming
<1>6. ASSUME ~stale', NEW n \in Names, NEW c \in Commands, Settled(n)'
      PROVE  NameHeard(n, c)'
  <2>1. \A i \in (k + 1)..Len(feed) : NameHistory(n, c)[i] = Silent
    <3> TAKE i \in (k + 1)..Len(feed)
    <3>1. feed[i].type \notin {"command", "command delete"}
      BY <1>0, <1>6
    <3>2. CommandNews(feed[i], n, c) = Silent
      BY <3>1 DEF CommandNews
    <3>3. i \in 1..Len(feed)
      BY <1>3
    <3> QED BY <3>2, <3>3 DEF NameHistory
  <2>2. \A i \in 1..k : NameHistory(n, c)'[i] = NameHistory(n, c)[i]
    BY <1>3 DEF NameHistory
  <2>3. NameHistory(n, c)'[k + 1] = Silent
    <3>1. NameHistory(n, c)'[k + 1] = CommandNews(Create(guild, S), n, c)
      BY <1>3 DEF NameHistory
    <3> QED BY <3>1 DEF CommandNews, Create
  <2>4. /\ Settled(n) /\ ~stale
        /\ Named(n, c)' = Named(n, c) /\ NameWas(n, c)' = NameWas(n, c)
    BY <1>0, <1>4, <1>6 DEF Settled, Owned, Named, NameWas
  <2>5. Heard(NameHistory(n, c), Len(feed), NameWas(n, c), Named(n, c))
    BY <1>4, <2>4 DEF Naming, NameHeard
  <2> DEFINE older == [i \in 1..k |-> NameHistory(n, c)[i]]
  <2>6. Heard(older, k, NameWas(n, c), Named(n, c))
    <3>1. \A i \in 1..k : older[i] = NameHistory(n, c)[i]
      OBVIOUS
    <3> HIDE DEF older
    <3> QED BY <1>3, <2>1, <2>5, <3>1, HeardCut
  <2>7. \A i \in 1..k : NameHistory(n, c)'[i] = older[i]
    BY <2>2
  <2> HIDE DEF older
  <2>8. Heard(NameHistory(n, c)', k + 1, NameWas(n, c), Named(n, c))
    BY <1>3, <2>3, <2>6, <2>7, HeardMore
  <2> QED BY <1>3, <2>4, <2>8 DEF NameHeard
<1> QED BY <1>5, <1>6, Zenon DEF Naming

(* The list fetched is what Discord has when it is fetched.                *)
LEMMA LoadNaming == ASSUME TypeOK, Naming, Load PROVE Naming'
<1>1. /\ phase = "loading" /\ phase' = "running" /\ commands' = CommandList
      /\ UNCHANGED <<feed, guild, renamed, stale>>
  BY DEF Load, worldVars, lossVars
<1>2. guild.commands \in [Commands -> Names \cup {Absent}] /\ Injective(guild.commands)
  BY DEF TypeOK, GuildState, Naming
<1>3. ASSUME NEW n \in Names, NEW c \in Commands
      PROVE  CommandList[n] = c <=> guild.commands[c] = n
  <2>1. CASE \E b \in Commands : guild.commands[b] = n
    <3>1. PICK b \in Commands : CommandList[n] = b /\ guild.commands[b] = n
      BY <2>1 DEF CommandList
    <3> QED BY <1>2, <3>1 DEF Injective, Present
  <2>2. CASE ~\E b \in Commands : guild.commands[b] = n
    <3>1. CommandList[n] = Absent /\ Absent # c
      BY <2>2 DEF CommandList
    <3> QED BY <2>2, <3>1
  <2> QED BY <2>1, <2>2
<1>4. ASSUME ~stale, NEW n \in Names, NEW c \in Commands, Settled(n)'
      PROVE  NameHeard(n, c)'
  <2>1. Settled(n) /\ Named(n, c)' = Named(n, c) /\ NameHistory(n, c)' = NameHistory(n, c)
    BY <1>1, <1>4 DEF Settled, Owned, Named, NameHistory
  <2>2. NameWas(n, c) = Named(n, c) /\ NameWas(n, c)' = Flag(CommandList[n] = c)
    BY <1>1 DEF NameWas
  <2>3. Flag(CommandList[n] = c) = Named(n, c)
    BY <1>3 DEF Flag, Named
  <2>4. NameHeard(n, c)
    BY <1>1, <1>4, <2>1 DEF Naming
  <2> QED BY <1>1, <2>1, <2>2, <2>3, <2>4 DEF NameHeard
<1>5. Injective(guild.commands)'
  BY <1>1, <1>2
<1> QED BY <1>1, <1>4, <1>5, Zenon DEF Naming

LEMMA InitNaming == Init => Naming
<1> SUFFICES ASSUME Init PROVE Naming
  OBVIOUS
<1>1. PICK known \in [Commands -> Names \cup {Absent}] :
        /\ Injective(known)
        /\ guild = [roles |-> [r \in Roles |-> 1], channels |-> [c \in Channels |-> 1],
                    members |-> [u \in Users |-> {}], commands |-> known]
  BY DEF Init
<1>2. phase = "loading" /\ Len(feed) = 0
  BY DEF Init
<1>3. \A n, c : NameHeard(n, c)
  BY <1>2 DEF NameHeard, Heard, NameWas
<1> QED BY <1>1, <1>3 DEF Naming

-----------------------------------------------------------------------------
(* Members.                                                                *)

(* What the members in the cache are after an event.                       *)
After(e, m) ==
    CASE e.type \in {"create", "chunk"} -> Merge(e.members, m)
      [] e.type = "member add" -> [m EXCEPT ![e.user] = e.roles]
      [] e.type = "member update" -> IF m[e.user] = Absent THEN m
                                     ELSE [m EXCEPT ![e.user] = e.roles]
      [] e.type = "member remove" -> [m EXCEPT ![e.user] = Absent]
      [] e.type = "role delete" -> Without(m, e.role)
      [] OTHER -> m

(* Every event is of a kind, with what that kind carries.                  *)
LEMMA EventKinds ==
    ASSUME NEW e \in Events
    PROVE  /\ e.type = "create" => e.members \in Membership /\ e.count \in Nat
           /\ e.type \in {"member add", "member update"} =>
                 e.user \in Users /\ e.roles \in SUBSET Roles
           /\ e.type = "member remove" => e.user \in Users
           /\ e.type = "chunk" => e.members \in Membership
           /\ e.type = "role delete" => e.role \in Roles
BY DEF Events, Creates

(* An event leaves members behind.                                         *)
LEMMA AfterType ==
    ASSUME NEW e \in Events, NEW m \in Membership
    PROVE  After(e, m) \in Membership
<1>1. CASE e.type \in {"create", "chunk"}
  BY <1>1, EventKinds, MembershipType DEF After
<1>2. CASE e.type \in {"member add", "member update", "member remove", "role delete"}
  BY <1>2, EventKinds, MembershipType DEF After
<1>3. CASE e.type \notin {"create", "chunk", "member add", "member update", "member remove",
                          "role delete"}
  BY <1>3 DEF After
<1> QED BY <1>1, <1>2, <1>3

(* An event taken in twice is an event taken in once.                      *)
LEMMA AfterTwice ==
    ASSUME NEW e \in Events, NEW m \in Membership
    PROVE  After(e, After(e, m)) = After(e, m)
<1>1. CASE e.type \in {"create", "chunk"}
  <2>1. \A x : After(e, x) = Merge(e.members, x)
    BY <1>1 DEF After
  <2> QED BY <2>1 DEF Merge
<1>2. CASE e.type \in {"member add", "member update", "member remove"}
  BY <1>2, EventKinds DEF After, Membership
<1>3. CASE e.type = "role delete"
  <2>1. \A x : After(e, x) = Without(x, e.role)
    BY <1>3 DEF After
  <2>2. Without(m, e.role) \in Membership
    BY MembershipType
  <2>3. \A u \in Users : Without(Without(m, e.role), e.role)[u] = Without(m, e.role)[u]
    BY DEF Without, Membership
  <2>4. Without(Without(m, e.role), e.role) = Without(m, e.role)
    BY <2>2, <2>3, MembershipType DEF Membership
  <2> QED BY <2>1, <2>4
<1>4. CASE e.type \notin {"create", "chunk", "member add", "member update", "member remove",
                          "role delete"}
  BY <1>4 DEF After
<1> QED BY <1>1, <1>2, <1>3, <1>4

(* The course of the cached members through n events.                      *)
Course(f, n, h, was) ==
    /\ h \in [0..n -> Membership]
    /\ h[0] = was
    /\ \A i \in 1..n : h[i] = After(f[i], h[i - 1])

(* A course goes on with an event reported.                                *)
LEMMA CourseMore ==
    ASSUME NEW n \in Nat, NEW f, NEW longer, NEW h, NEW was, NEW e \in Events,
           Course(f, n, h, was),
           \A i \in 1..n : longer[i] = f[i], longer[n + 1] = e
    PROVE  \E further : /\ Course(longer, n + 1, further, was)
                        /\ \A i \in 0..n : further[i] = h[i]
<1> DEFINE further == [i \in 0..(n + 1) |-> IF i \in 0..n THEN h[i] ELSE After(e, h[n])]
<1>1. h \in [0..n -> Membership] /\ After(e, h[n]) \in Membership
  BY AfterType DEF Course
<1>2. further \in [0..(n + 1) -> Membership]
  BY <1>1
<1>3. /\ \A i \in 0..n : further[i] = h[i]
      /\ further[n + 1] = After(e, h[n])
  OBVIOUS
<1> HIDE DEF further
<1>4. ASSUME NEW i \in 1..(n + 1) PROVE further[i] = After(longer[i], further[i - 1])
  <2>1. CASE i = n + 1
    <3>1. i - 1 = n /\ n \in 0..n
      BY <2>1
    <3> QED BY <1>3, <2>1, <3>1
  <2>2. CASE i \in 1..n
    <3>1. i \in 0..n /\ i - 1 \in 0..n
      BY <2>2
    <3> QED BY <1>3, <2>2, <3>1 DEF Course
  <2> QED BY <2>1, <2>2
<1>5. further[0] = was
  BY <1>3 DEF Course
<1> QED BY <1>2, <1>3, <1>4, <1>5 DEF Course

(* The first event is taken in, and the others move up.                    *)
Shifted(shorter, f, n) == \A i \in 1..(n - 1) : shorter[i] = f[i + 1]

(* The rest of a course, once its first event was taken in.                *)
LEMMA CourseLess ==
    ASSUME NEW n \in Nat, n >= 1, NEW f, NEW shorter, NEW h, NEW was,
           Course(f, n, h, was),
           Shifted(shorter, f, n)
    PROVE  \E later : /\ Course(shorter, n - 1, later, h[1])
                      /\ \A i \in 0..(n - 1) : later[i] = h[i + 1]
<1> DEFINE later == [i \in 0..(n - 1) |-> h[i + 1]]
<1>1. later \in [0..(n - 1) -> Membership] /\ later[0] = h[1]
  BY DEF Course
<1>2. \A i \in 0..(n - 1) : later[i] = h[i + 1]
  OBVIOUS
<1> HIDE DEF later
<1>3. ASSUME NEW i \in 1..(n - 1) PROVE later[i] = After(shorter[i], later[i - 1])
  <2>1. i \in 0..(n - 1) /\ i - 1 \in 0..(n - 1) /\ i + 1 \in 1..n /\ (i - 1) + 1 = (i + 1) - 1
    OBVIOUS
  <2>2. h[i + 1] = After(f[i + 1], h[(i + 1) - 1])
    BY <2>1 DEF Course
  <2> QED BY <1>2, <2>1, <2>2 DEF Shifted
<1> QED BY <1>1, <1>2, <1>3 DEF Course

(* It is taken in, and comes once more.                                    *)
LEMMA CourseAgain ==
    ASSUME NEW n \in Nat, n >= 1, NEW f, f[1] \in Events, NEW h, NEW was, Course(f, n, h, was)
    PROVE  \E again : /\ Course(f, n, again, h[1])
                      /\ again[0] = h[1]
                      /\ \A i \in 1..n : again[i] = h[i]
<1> DEFINE again == [i \in 0..n |-> IF i = 0 THEN h[1] ELSE h[i]]
<1>1. again \in [0..n -> Membership] /\ again[0] = h[1] /\ \A i \in 1..n : again[i] = h[i]
  BY DEF Course
<1> HIDE DEF again
<1>2. h[1] = After(f[1], h[0]) /\ h[0] \in Membership
  BY DEF Course
<1>3. After(f[1], h[1]) = h[1]
  BY <1>2, AfterTwice
<1>4. ASSUME NEW i \in 1..n PROVE again[i] = After(f[i], again[i - 1])
  <2>1. CASE i = 1
    BY <1>1, <1>3, <2>1
  <2>2. CASE i # 1
    <3>1. i - 1 \in 1..n
      BY <2>2
    <3> QED BY <1>1, <3>1 DEF Course
  <2> QED BY <2>1, <2>2
<1> QED BY <1>1, <1>4 DEF Course

(* The course up to some event.                                            *)
LEMMA CourseCut ==
    ASSUME NEW n \in Nat, NEW k \in 0..n, NEW f, NEW h, NEW was, Course(f, n, h, was)
    PROVE  \E start : /\ Course(f, k, start, was)
                      /\ \A i \in 0..k : start[i] = h[i]
<1> DEFINE start == [i \in 0..k |-> h[i]]
<1>1. start \in [0..k -> Membership] /\ start[0] = was
  BY DEF Course
<1>2. \A i \in 0..k : start[i] = h[i]
  OBVIOUS
<1> HIDE DEF start
<1>3. ASSUME NEW i \in 1..k PROVE start[i] = After(f[i], start[i - 1])
  <2>1. i \in 0..k /\ i - 1 \in 0..k /\ i \in 1..n
    OBVIOUS
  <2> QED BY <1>2, <2>1 DEF Course
<1> QED BY <1>1, <1>2, <1>3 DEF Course

(* Whoever is cached at some point of the course and is wrong then, still  *)
(* has an event to come that tells of him, or was not heard of; and if he  *)
(* is no member any more, his removal is to come, or was lost.             *)
Leaver(e, u) == e.type = "member remove" /\ e.user = u

GoneAt(f, k, n, u, gone) == u \in gone \/ \E i \in (k + 1)..n : Leaver(f[i], u)
OpenAt(f, k, n, u, open) == u \in open \/ \E i \in (k + 1)..n : u \in About(f[i])

Faithful(f, n, h, g, gone, open) ==
    \A k \in 0..n, u \in Users : h[k][u] # Absent =>
        /\ g[u] = Absent => GoneAt(f, k, n, u, gone)
        /\ h[k][u] # g[u] => OpenAt(f, k, n, u, open)

(* The event e tells how the members g became g2.                          *)
Follows(g, g2, e) ==
    /\ \A u \in Users :
          /\ g2[u] # g[u] => u \in About(e)
          /\ g2[u] = Absent /\ g[u] # Absent => Leaver(e, u)
    /\ \A m \in Membership, u \in Users :
          /\ \/ After(e, m)[u] = Absent
             \/ After(e, m)[u] = g2[u]
             \/ m[u] # Absent /\ m[u] # g[u] /\ (g2[u] = Absent => g[u] = Absent)
          /\ g2[u] # Absent /\ After(e, m)[u] = Absent => g[u] # Absent /\ m[u] = Absent

(* A course stays faithful when it goes on with an event that tells of a   *)
(* change of the guild.                                                    *)
LEMMA FaithfulMore ==
    ASSUME NEW n \in Nat, NEW f, NEW longer, NEW h, NEW further, NEW was,
           NEW e \in Events, NEW g, NEW g2, NEW gone, NEW open,
           \A i \in 1..n : longer[i] = f[i], longer[n + 1] = e,
           Course(f, n, h, was), Course(longer, n + 1, further, was),
           \A i \in 0..n : further[i] = h[i],
           Faithful(f, n, h, g, gone, open), Follows(g, g2, e)
    PROVE  Faithful(longer, n + 1, further, g2, gone, open)
<1> SUFFICES ASSUME NEW k \in 0..(n + 1), NEW u \in Users, further[k][u] # Absent
             PROVE  /\ g2[u] = Absent => GoneAt(longer, k, n + 1, u, gone)
                    /\ further[k][u] # g2[u] => OpenAt(longer, k, n + 1, u, open)
  BY DEF Faithful
<1>1. CASE k \in 0..n
  <2>1. h[k][u] # Absent /\ h[k][u] = further[k][u]
    BY <1>1
  <2>2. /\ g[u] = Absent => GoneAt(f, k, n, u, gone)
        /\ h[k][u] # g[u] => OpenAt(f, k, n, u, open)
    BY <1>1, <2>1 DEF Faithful
  <2>3. /\ \A i \in (k + 1)..n : i \in (k + 1)..(n + 1) /\ longer[i] = f[i]
        /\ n + 1 \in (k + 1)..(n + 1)
    BY <1>1
  <2>4. /\ GoneAt(f, k, n, u, gone) => GoneAt(longer, k, n + 1, u, gone)
        /\ OpenAt(f, k, n, u, open) => OpenAt(longer, k, n + 1, u, open)
    BY <2>3, Zenon DEF GoneAt, OpenAt
  <2>5. /\ Leaver(e, u) => GoneAt(longer, k, n + 1, u, gone)
        /\ u \in About(e) => OpenAt(longer, k, n + 1, u, open)
    BY <2>3, Zenon DEF GoneAt, OpenAt
  <2>6. /\ g2[u] # g[u] => u \in About(e)
        /\ g2[u] = Absent /\ g[u] # Absent => Leaver(e, u)
    BY DEF Follows
  <2> QED BY <2>1, <2>2, <2>4, <2>5, <2>6
<1>2. CASE k = n + 1
  <2>1. h[n] \in Membership /\ further[k] = After(e, h[n])
    <3>1. (n + 1) - 1 = n /\ n + 1 \in 1..(n + 1) /\ n \in 0..n
      OBVIOUS
    <3> QED BY <1>2, <3>1 DEF Course
  <2>2. \/ further[k][u] = g2[u]
        \/ h[n][u] # Absent /\ h[n][u] # g[u] /\ (g2[u] = Absent => g[u] = Absent)
    BY <2>1 DEF Follows
  <2>3. \A i : i \notin (n + 1)..n
    OBVIOUS
  <2>4. h[n][u] # Absent =>
           /\ g[u] = Absent => u \in gone
           /\ h[n][u] # g[u] => u \in open
    BY <2>3 DEF Faithful, GoneAt, OpenAt
  <2> QED BY <2>2, <2>4 DEF GoneAt, OpenAt
<1> QED BY <1>1, <1>2

(* So does the rest of one.                                                *)
LEMMA FaithfulLess ==
    ASSUME NEW n \in Nat, n >= 1, NEW f, NEW shorter, NEW h, NEW later,
           NEW g, NEW gone, NEW open,
           Shifted(shorter, f, n),
           \A i \in 0..(n - 1) : later[i] = h[i + 1],
           Faithful(f, n, h, g, gone, open)
    PROVE  Faithful(shorter, n - 1, later, g, gone, open)
<1> SUFFICES ASSUME NEW k \in 0..(n - 1), NEW u \in Users, later[k][u] # Absent
             PROVE  /\ g[u] = Absent => GoneAt(shorter, k, n - 1, u, gone)
                    /\ later[k][u] # g[u] => OpenAt(shorter, k, n - 1, u, open)
  BY DEF Faithful
<1>1. k + 1 \in 0..n /\ h[k + 1][u] = later[k][u]
  OBVIOUS
<1>2. /\ g[u] = Absent => GoneAt(f, k + 1, n, u, gone)
      /\ later[k][u] # g[u] => OpenAt(f, k + 1, n, u, open)
  BY <1>1 DEF Faithful
<1>3. ASSUME NEW i \in ((k + 1) + 1)..n
      PROVE  i - 1 \in (k + 1)..(n - 1) /\ shorter[i - 1] = f[i]
  <2>1. i - 1 \in 1..(n - 1) /\ (i - 1) + 1 = i /\ i - 1 \in (k + 1)..(n - 1)
    OBVIOUS
  <2> QED BY <2>1 DEF Shifted
<1> QED BY <1>2, <1>3, Zenon DEF GoneAt, OpenAt

(* So does one whose first event comes a second time.                      *)
LEMMA FaithfulAgain ==
    ASSUME NEW n \in Nat, n >= 1, NEW f, NEW h, NEW again, NEW g, NEW gone, NEW open,
           again[0] = h[1], \A i \in 1..n : again[i] = h[i],
           Faithful(f, n, h, g, gone, open)
    PROVE  Faithful(f, n, again, g, gone, open)
<1> SUFFICES ASSUME NEW k \in 0..n, NEW u \in Users, again[k][u] # Absent
             PROVE  /\ g[u] = Absent => GoneAt(f, k, n, u, gone)
                    /\ again[k][u] # g[u] => OpenAt(f, k, n, u, open)
  BY DEF Faithful
<1>1. CASE k \in 1..n
  BY <1>1 DEF Faithful
<1>2. CASE k = 0
  <2>1. /\ g[u] = Absent => GoneAt(f, 1, n, u, gone)
        /\ again[k][u] # g[u] => OpenAt(f, 1, n, u, open)
    BY <1>2 DEF Faithful
  <2>2. \A i \in (1 + 1)..n : i \in (k + 1)..n
    BY <1>2
  <2> QED BY <2>1, <2>2, Zenon DEF GoneAt, OpenAt
<1> QED BY <1>1, <1>2

(* What is cut off is remembered as lost.                                  *)
LEMMA FaithfulCut ==
    ASSUME NEW n \in Nat, NEW k \in 0..n, NEW f, NEW h, NEW start, NEW g,
           NEW gone, NEW open, NEW gone2, NEW open2,
           \A i \in 0..k : start[i] = h[i],
           \A u \in Users : GoneAt(f, k, n, u, gone) => u \in gone2,
           \A u \in Users : OpenAt(f, k, n, u, open) => u \in open2,
           Faithful(f, n, h, g, gone, open)
    PROVE  Faithful(f, k, start, g, gone2, open2)
<1> SUFFICES ASSUME NEW j \in 0..k, NEW u \in Users, start[j][u] # Absent
             PROVE  /\ g[u] = Absent => GoneAt(f, j, k, u, gone2)
                    /\ start[j][u] # g[u] => OpenAt(f, j, k, u, open2)
  BY DEF Faithful
<1>1. /\ g[u] = Absent => GoneAt(f, j, n, u, gone)
      /\ start[j][u] # g[u] => OpenAt(f, j, n, u, open)
  BY DEF Faithful
<1>2. \A i \in (j + 1)..n : i \in (j + 1)..k \/ i \in (k + 1)..n
  OBVIOUS
<1>3. GoneAt(f, j, n, u, gone) => GoneAt(f, j, k, u, gone2)
  BY <1>2, Zenon DEF GoneAt
<1>4. OpenAt(f, j, n, u, open) => OpenAt(f, j, k, u, open2)
  BY <1>2, Zenon DEF OpenAt
<1> QED BY <1>1, <1>3, <1>4

(* The events of members, and those of none.                               *)
Joined(u, R) == [type |-> "member add", user |-> u, roles |-> R]
Updated(u, R) == [type |-> "member update", user |-> u, roles |-> R]
Removed(u) == [type |-> "member remove", user |-> u]
Dropped(r) == [type |-> "role delete", role |-> r]
OfNobody(e) ==
    e.type \in {"update", "role", "channel", "channel delete", "command", "command delete"}

(* An event about no member leaves them as they are.                       *)
LEMMA FollowsOther ==
    ASSUME NEW g \in Membership, NEW e, OfNobody(e)
    PROVE  Follows(g, g, e)
<1>1. \A m : After(e, m) = m
  BY DEF After, OfNobody
<1> QED BY <1>1 DEF Follows

(* So does one that tells members as they are.                             *)
LEMMA FollowsTold ==
    ASSUME NEW g \in Membership, NEW e, e.type \in {"create", "chunk"},
           \A u \in Users : e.members[u] = g[u] \/ e.members[u] = Absent
    PROVE  Follows(g, g, e)
<1>1. \A m \in Membership, u \in Users :
         After(e, m)[u] = IF e.members[u] # Absent THEN e.members[u] ELSE m[u]
  BY DEF After, Merge
<1> QED BY <1>1 DEF Follows

(* A member that joins, or whose roles change, is told as he is.           *)
LEMMA FollowsOne ==
    ASSUME NEW g \in Membership, NEW u \in Users, NEW R \in SUBSET Roles, NEW e,
           e = Joined(u, R) \/ (e = Updated(u, R) /\ g[u] # Absent)
    PROVE  Follows(g, [g EXCEPT ![u] = R], e)
<1> DEFINE g2 == [g EXCEPT ![u] = R]
<1>1. \A v \in Users : g2[v] = IF v = u THEN R ELSE g[v]
  BY DEF Membership
<1>2. R # Absent /\ u \in About(e)
  <2>1. CASE e = Joined(u, R)
    BY <2>1 DEF About, Joined
  <2>2. CASE e = Updated(u, R) /\ g[u] # Absent
    BY <2>2 DEF About, Updated
  <2> QED BY <2>1, <2>2
<1>3. ASSUME NEW m \in Membership, NEW v \in Users
      PROVE  \/ After(e, m)[v] = IF v = u THEN R ELSE m[v]
             \/ v = u /\ g[u] # Absent /\ After(e, m)[v] = Absent /\ m[u] = Absent
  <2>1. \A x \in Users : [m EXCEPT ![u] = R][x] = IF x = u THEN R ELSE m[x]
    BY DEF Membership
  <2>2. CASE e = Joined(u, R)
    <3>1. After(e, m) = [m EXCEPT ![u] = R]
      BY <2>2 DEF After, Joined
    <3> QED BY <2>1, <3>1
  <2>3. CASE e = Updated(u, R) /\ g[u] # Absent
    <3>1. After(e, m) = IF m[u] = Absent THEN m ELSE [m EXCEPT ![u] = R]
      BY <2>3 DEF After, Updated
    <3> QED BY <2>1, <2>3, <3>1
  <2> QED BY <2>2, <2>3
<1> HIDE DEF g2
<1>4. ASSUME NEW m \in Membership, NEW v \in Users
      PROVE  /\ \/ After(e, m)[v] = Absent
                \/ After(e, m)[v] = g2[v]
                \/ m[v] # Absent /\ m[v] # g[v] /\ (g2[v] = Absent => g[v] = Absent)
             /\ g2[v] # Absent /\ After(e, m)[v] = Absent => g[v] # Absent /\ m[v] = Absent
  BY <1>1, <1>2, <1>3
<1>5. \A v \in Users : /\ g2[v] # g[v] => v \in About(e)
                       /\ g2[v] = Absent /\ g[v] # Absent => Leaver(e, v)
  BY <1>1, <1>2
<1>6. Follows(g, g2, e)
  BY <1>4, <1>5 DEF Follows
<1> QED BY <1>6 DEF g2

(* One that leaves is told to be gone.                                     *)
LEMMA FollowsLeave ==
    ASSUME NEW g \in Membership, NEW u \in Users, NEW e,
           e = Removed(u)
    PROVE  Follows(g, [g EXCEPT ![u] = Absent], e)
<1> DEFINE g2 == [g EXCEPT ![u] = Absent]
<1>1. \A v \in Users : g2[v] = IF v = u THEN Absent ELSE g[v]
  BY DEF Membership
<1>2. u \in About(e) /\ Leaver(e, u)
  BY DEF About, Leaver, Removed
<1>3. \A m \in Membership, v \in Users : After(e, m)[v] = IF v = u THEN Absent ELSE m[v]
  BY DEF After, Removed, Membership
<1> HIDE DEF g2
<1>4. Follows(g, g2, e)
  BY <1>1, <1>2, <1>3 DEF Follows
<1> QED BY <1>4 DEF g2

(* A role that is deleted is told to be nobody's.                          *)
LEMMA FollowsStripped ==
    ASSUME NEW g \in Membership, NEW r \in Roles, NEW e,
           e = Dropped(r)
    PROVE  Follows(g, Without(g, r), e)
<1>1. \A u \in Users : u \in About(e)
  BY DEF About, Dropped
<1>2. \A m \in Membership, u \in Users :
         Without(m, r)[u] = IF m[u] = Absent THEN Absent ELSE m[u] \ {r}
  BY DEF Without, Membership
<1>3. \A m : After(e, m) = Without(m, r)
  BY DEF After, Dropped
<1>4. \A m \in Membership, u \in Users : m[u] # Absent => Without(m, r)[u] # Absent
  <2> SUFFICES ASSUME NEW m \in Membership, NEW u \in Users, m[u] # Absent
               PROVE  Without(m, r)[u] # Absent
    OBVIOUS
  <2>1. m[u] \ {r} \in SUBSET Roles
    BY DEF Membership
  <2>2. \A R \in SUBSET Roles : R # Absent
    OBVIOUS
  <2> QED BY <1>2, <2>1, <2>2
<1>5. ASSUME NEW m \in Membership, NEW u \in Users
      PROVE  /\ \/ After(e, m)[u] = Absent
                \/ After(e, m)[u] = Without(g, r)[u]
                \/ m[u] # Absent /\ m[u] # g[u] /\ (Without(g, r)[u] = Absent => g[u] = Absent)
             /\ Without(g, r)[u] # Absent /\ After(e, m)[u] = Absent
                   => g[u] # Absent /\ m[u] = Absent
  <2>1. m[u] = g[u] => Without(m, r)[u] = Without(g, r)[u]
    BY <1>2
  <2> QED BY <1>2, <1>3, <1>4, <2>1
<1>6. \A u \in Users : ~(Without(g, r)[u] = Absent /\ g[u] # Absent)
  BY <1>4
<1> QED BY <1>1, <1>5, <1>6, Zenon DEF Follows

(* A report of how the members became what they are.  It is no GuildCreate *)
(* and, unless it is about a command, leaves the commands alone.           *)
Tidings(e) ==
    /\ Report(e) /\ e.type # "create"
    /\ Follows(guild.members, guild'.members, e)
    /\ guild'.members \in Membership
    /\ UNCHANGED <<phase, first, cacheVars, lossVars>>
    /\ \/ CommandNamed \/ CommandDeleted
       \/ /\ e.type \notin {"command", "command delete"}
          /\ guild'.commands = guild.commands /\ renamed' = renamed

(* What a change is, taken apart.                                          *)
LEMMA ChangeTidings ==
    ASSUME TypeOK, NEW new \in GuildState, NEW e \in Events, Change(new, e), e.type # "create",
           Follows(guild.members, new.members, e),
           \/ CommandNamed \/ CommandDeleted
           \/ /\ e.type \notin {"command", "command delete"}
              /\ new.commands = guild.commands /\ renamed' = renamed
    PROVE  Tidings(e)
<1>1. guild' = new /\ Report(e) /\ UNCHANGED <<phase, first, cacheVars, lossVars>>
  BY DEF Change
<1>2. new.members \in Membership
  BY DEF GuildState
<1> QED BY <1>1, <1>2, Zenon DEF Tidings

LEMMA ChangesFollow == ASSUME TypeOK, Changes PROVE \E e \in Events : Tidings(e)
<1> DEFINE g == guild.members
<1>0. /\ guild.roles \in Versioned(Roles) /\ guild.channels \in Versioned(Channels)
      /\ g \in Membership /\ guild.commands \in [Commands -> Names \cup {Absent}]
      /\ guild \in GuildState
  BY DEF TypeOK, GuildState
<1>1. CASE MemberJoins
  <2>1. PICK u \in Users :
        Change([guild EXCEPT !.members[u] = {}], [type |-> "member add", user |-> u, roles |-> {}])
    BY <1>1 DEF MemberJoins
  <2> DEFINE new == [guild EXCEPT !.members[u] = {}]
             e == [type |-> "member add", user |-> u, roles |-> {}]
  <2>2. [g EXCEPT ![u] = {}] \in Membership
    BY <1>0, MembershipType
  <2>3. new \in GuildState /\ new.members = [g EXCEPT ![u] = {}] /\ new.commands = guild.commands
    BY <1>0, <2>2 DEF GuildState
  <2>4. e \in Events /\ e.type = "member add"
    BY DEF Events
  <2>5. renamed' = renamed /\ Change(new, e)
    BY <2>1, <1>1 DEF MemberJoins
  <2>6. e = Joined(u, {})
    BY DEF Joined
  <2> HIDE DEF new, e
  <2>7. Follows(g, new.members, e)
    <3>1. g \in Membership /\ {} \in SUBSET Roles
      BY <1>0
    <3>2. Follows(g, [g EXCEPT ![u] = {}], e)
      BY <2>6, <3>1, FollowsOne
    <3> QED BY <2>3, <3>2
  <2> QED BY <2>3, <2>4, <2>5, <2>7, ChangeTidings
<1>2. CASE MemberChanges
  <2>1. PICK u \in Present(guild.members), R \in SUBSET Existing(guild.roles) :
        Change([guild EXCEPT !.members[u] = R], [type |-> "member update", user |-> u, roles |-> R])
    BY <1>2 DEF MemberChanges
  <2> DEFINE new == [guild EXCEPT !.members[u] = R]
             e == [type |-> "member update", user |-> u, roles |-> R]
  <2>2. u \in Users /\ R \in SUBSET Roles /\ g[u] # Absent
    BY <1>0 DEF Present, Existing, Membership, Versioned
  <2>3. [g EXCEPT ![u] = R] \in Membership
    BY <1>0, <2>2, MembershipType
  <2>4. new \in GuildState /\ new.members = [g EXCEPT ![u] = R] /\ new.commands = guild.commands
    BY <1>0, <2>3 DEF GuildState
  <2>5. e \in Events /\ e.type = "member update"
    BY <2>2 DEF Events
  <2>6. renamed' = renamed /\ Change(new, e)
    BY <2>1, <1>2 DEF MemberChanges
  <2>7. e = Updated(u, R)
    BY DEF Updated
  <2> HIDE DEF new, e
  <2>8. Follows(g, new.members, e)
    <3>1. Follows(g, [g EXCEPT ![u] = R], e)
      BY <1>0, <2>2, <2>7, FollowsOne
    <3> QED BY <2>4, <3>1
  <2> QED BY <2>4, <2>5, <2>6, <2>8, ChangeTidings
<1>3. CASE MemberLeaves
  <2>1. PICK u \in Present(guild.members) :
        Change([guild EXCEPT !.members[u] = Absent], [type |-> "member remove", user |-> u])
    BY <1>3 DEF MemberLeaves
  <2> DEFINE new == [guild EXCEPT !.members[u] = Absent]
             e == [type |-> "member remove", user |-> u]
  <2>2. u \in Users
    BY <1>0 DEF Present, Membership
  <2>3. [g EXCEPT ![u] = Absent] \in Membership
    BY <1>0, <2>2, MembershipType
  <2>4. new \in GuildState /\ new.members = [g EXCEPT ![u] = Absent]
        /\ new.commands = guild.commands
    BY <1>0, <2>3 DEF GuildState
  <2>5. e \in Events /\ e.type = "member remove"
    BY <2>2 DEF Events
  <2>6. renamed' = renamed /\ Change(new, e)
    BY <2>1, <1>3 DEF MemberLeaves
  <2>7. e = Removed(u)
    BY DEF Removed
  <2> HIDE DEF new, e
  <2>8. Follows(g, new.members, e)
    BY <1>0, <2>2, <2>4, <2>7, FollowsLeave
  <2> QED BY <2>4, <2>5, <2>6, <2>8, ChangeTidings
<1>4. CASE RoleDeleted
  <2>1. PICK r \in Roles :
        Change([guild EXCEPT !.roles[r] = 0, !.members = Without(guild.members, r)],
               [type |-> "role delete", role |-> r])
    BY <1>4 DEF RoleDeleted
  <2> DEFINE new == [guild EXCEPT !.roles[r] = 0, !.members = Without(guild.members, r)]
             e == [type |-> "role delete", role |-> r]
  <2>2. [guild.roles EXCEPT ![r] = 0] \in Versioned(Roles) /\ Without(g, r) \in Membership
    BY <1>0, MembershipType DEF Versioned
  <2>3. new \in GuildState /\ new.members = Without(g, r) /\ new.commands = guild.commands
    BY <1>0, <2>2 DEF GuildState
  <2>4. e \in Events /\ e.type = "role delete"
    BY DEF Events
  <2>5. renamed' = renamed /\ Change(new, e)
    BY <2>1, <1>4 DEF RoleDeleted
  <2>6. e = Dropped(r)
    BY DEF Dropped
  <2> HIDE DEF new, e
  <2>7. Follows(g, new.members, e)
    BY <1>0, <2>3, <2>6, FollowsStripped
  <2> QED BY <2>3, <2>4, <2>5, <2>7, ChangeTidings
<1>5. CASE RoleSet
  <2>1. PICK r \in Roles, v \in Versions :
        Change([guild EXCEPT !.roles[r] = v], [type |-> "role", role |-> r, version |-> v])
    BY <1>5 DEF RoleSet
  <2> DEFINE new == [guild EXCEPT !.roles[r] = v]
             e == [type |-> "role", role |-> r, version |-> v]
  <2>2. [guild.roles EXCEPT ![r] = v] \in Versioned(Roles)
    BY <1>0 DEF Versioned
  <2>3. new \in GuildState /\ new.members = g /\ new.commands = guild.commands
    BY <1>0, <2>2 DEF GuildState
  <2>4. e \in Events /\ e.type = "role"
    BY DEF Events
  <2>5. renamed' = renamed /\ Change(new, e)
    BY <2>1, <1>5 DEF RoleSet
  <2>6. OfNobody(e)
    BY DEF OfNobody
  <2> HIDE DEF new, e
  <2>7. Follows(g, new.members, e)
    BY <1>0, <2>3, <2>6, FollowsOther
  <2> QED BY <2>3, <2>4, <2>5, <2>7, ChangeTidings
<1>6. CASE ChannelChanges
  <2>1. PICK c \in Channels, v \in Versions :
        Change([guild EXCEPT !.channels[c] = v], [type |-> "channel", channel |-> c, version |-> v])
    BY <1>6 DEF ChannelChanges
  <2> DEFINE new == [guild EXCEPT !.channels[c] = v]
             e == [type |-> "channel", channel |-> c, version |-> v]
  <2>2. [guild.channels EXCEPT ![c] = v] \in Versioned(Channels)
    BY <1>0 DEF Versioned
  <2>3. new \in GuildState /\ new.members = g /\ new.commands = guild.commands
    BY <1>0, <2>2 DEF GuildState
  <2>4. e \in Events /\ e.type = "channel"
    BY DEF Events
  <2>5. renamed' = renamed /\ Change(new, e)
    BY <2>1, <1>6 DEF ChannelChanges
  <2>6. OfNobody(e)
    BY DEF OfNobody
  <2> HIDE DEF new, e
  <2>7. Follows(g, new.members, e)
    BY <1>0, <2>3, <2>6, FollowsOther
  <2> QED BY <2>3, <2>4, <2>5, <2>7, ChangeTidings
<1>7. CASE ChannelDeleted
  <2>1. PICK c \in Channels :
        Change([guild EXCEPT !.channels[c] = 0], [type |-> "channel delete", channel |-> c])
    BY <1>7 DEF ChannelDeleted
  <2> DEFINE new == [guild EXCEPT !.channels[c] = 0]
             e == [type |-> "channel delete", channel |-> c]
  <2>2. [guild.channels EXCEPT ![c] = 0] \in Versioned(Channels)
    BY <1>0 DEF Versioned
  <2>3. new \in GuildState /\ new.members = g /\ new.commands = guild.commands
    BY <1>0, <2>2 DEF GuildState
  <2>4. e \in Events /\ e.type = "channel delete"
    BY DEF Events
  <2>5. renamed' = renamed /\ Change(new, e)
    BY <2>1, <1>7 DEF ChannelDeleted
  <2>6. OfNobody(e)
    BY DEF OfNobody
  <2> HIDE DEF new, e
  <2>7. Follows(g, new.members, e)
    BY <1>0, <2>3, <2>6, FollowsOther
  <2> QED BY <2>3, <2>4, <2>5, <2>7, ChangeTidings
<1>8. CASE GuildChanges
  <2> DEFINE e == [type |-> "update", info |-> InfoOf(guild)]
  <2>1. e \in Events /\ e.type = "update"
    BY <1>0 DEF Events, Info, InfoOf
  <2>2. renamed' = renamed /\ Change(guild, e)
    BY <1>8 DEF GuildChanges
  <2>3. OfNobody(e)
    BY DEF OfNobody
  <2> HIDE DEF e
  <2>4. Follows(g, guild.members, e)
    BY <1>0, <2>3, FollowsOther
  <2> QED BY <1>0, <2>1, <2>2, <2>4, ChangeTidings
<1>9. CASE CommandNamed
  <2>1. PICK c \in Commands, n \in Names :
        Change([guild EXCEPT !.commands[c] = n], [type |-> "command", command |-> c, name |-> n])
    BY <1>9 DEF CommandNamed
  <2> DEFINE new == [guild EXCEPT !.commands[c] = n]
             e == [type |-> "command", command |-> c, name |-> n]
  <2>2. [guild.commands EXCEPT ![c] = n] \in [Commands -> Names \cup {Absent}]
    BY <1>0
  <2>3. new \in GuildState /\ new.members = g
    BY <1>0, <2>2 DEF GuildState
  <2>4. e \in Events /\ e.type = "command"
    BY DEF Events
  <2>5. Change(new, e)
    BY <2>1
  <2>6. OfNobody(e)
    BY DEF OfNobody
  <2> HIDE DEF new, e
  <2>7. Follows(g, new.members, e)
    BY <1>0, <2>3, <2>6, FollowsOther
  <2> QED BY <1>9, <2>3, <2>4, <2>5, <2>7, ChangeTidings
<1>10. CASE CommandDeleted
  <2>1. PICK c \in Present(guild.commands) :
        Change([guild EXCEPT !.commands[c] = Absent],
               [type |-> "command delete", command |-> c, name |-> guild.commands[c]])
    BY <1>10 DEF CommandDeleted
  <2> DEFINE new == [guild EXCEPT !.commands[c] = Absent]
             e == [type |-> "command delete", command |-> c, name |-> guild.commands[c]]
  <2>2. c \in Commands /\ guild.commands[c] \in Names
    BY <1>0 DEF Present
  <2>3. [guild.commands EXCEPT ![c] = Absent] \in [Commands -> Names \cup {Absent}]
    BY <1>0
  <2>4. new \in GuildState /\ new.members = g
    BY <1>0, <2>3 DEF GuildState
  <2>5. e \in Events /\ e.type = "command delete"
    BY <2>2 DEF Events
  <2>6. Change(new, e)
    BY <2>1
  <2>7. OfNobody(e)
    BY DEF OfNobody
  <2> HIDE DEF new, e
  <2>8. Follows(g, new.members, e)
    BY <1>0, <2>4, <2>7, FollowsOther
  <2> QED BY <1>10, <2>4, <2>5, <2>6, <2>8, ChangeTidings
<1> QED BY <1>1, <1>2, <1>3, <1>4, <1>5, <1>6, <1>7, <1>8, <1>9, <1>10 DEF Changes

(* Every handler does to the members what the event does, and a            *)
(* GuildCreate that leaves no request to wait for found enough of them.    *)
Enlists ==
    /\ phase = "running" /\ UNCHANGED <<phase, first, guild, left, unheard>>
    /\ feed # <<>> /\ (feed' = Tail(feed) \/ feed' = feed)
    /\ members' = After(feed[1], members)
    /\ request' = "none" =>
          /\ request = "none"
          /\ feed[1].type = "create" => Cardinality(Present(members')) >= feed[1].count

(* A handler that asks for nothing enlists as the event says.              *)
LEMMA SameEnlists ==
    ASSUME TypeOK, NEW type, Next1(type), type # "create",
           members' = After(feed[1], members), request' = request
    PROVE  Enlists
BY DEF Enlists, Next1, worldVars, lossVars

(* Members are users, and can be counted.                                  *)
LEMMA PresentFinite ==
    ASSUME NEW m \in Membership
    PROVE  Present(m) \subseteq Users /\ IsFiniteSet(Present(m)) /\ Cardinality(Present(m)) \in Nat
<1>1. Present(m) \subseteq Users
  BY DEF Present, Membership
<1> QED BY <1>1, FS_Subset, FS_CardinalityType

(* update() asks for all members unless it knows enough of them.           *)
LEMMA UpdateAsks ==
    ASSUME NEW info, NEW new, NEW count \in Nat, members \in Membership, new \in Membership,
           Update(info, new, count)
    PROVE  /\ members' = Merge(new, members)
           /\ request' = "none" =>
                 request = "none" /\ Cardinality(Present(members')) >= count
<1>1. members' = Merge(new, members) /\ Cardinality(Present(members')) \in Nat
  BY MembershipType, PresentFinite DEF Update
<1>2. CASE Missing(Merge(new, members), count)
  BY <1>1, <1>2 DEF Update
<1>3. CASE ~Missing(Merge(new, members), count)
  BY <1>1, <1>3 DEF Update, Missing
<1> QED BY <1>1, <1>2, <1>3

LEMMA HandledEnlists == ASSUME TypeOK, Handled PROVE Enlists
<1>0. members \in Membership
  BY DEF TypeOK
<1>1. CASE GuildCreate
  <2>1. /\ Next1("create") /\ Update(feed[1].info, feed[1].members, feed[1].count)
        /\ feed[1] \in Events /\ feed[1].type = "create"
    BY <1>1, EventType DEF GuildCreate
  <2>2. feed[1].members \in Membership /\ feed[1].count \in Nat
    BY <2>1, EventKinds
  <2>3. /\ members' = Merge(feed[1].members, members)
        /\ request' = "none" =>
              request = "none" /\ Cardinality(Present(members')) >= feed[1].count
    BY <1>0, <2>1, <2>2, UpdateAsks
  <2>4. members' = After(feed[1], members)
    BY <2>1, <2>3 DEF After
  <2> QED BY <2>1, <2>3, <2>4 DEF Enlists, Next1, worldVars, lossVars
<1>2. CASE GuildUpdate
  <2>1. /\ Next1("update") /\ Update(feed[1].info, Nobody, 0) /\ feed[1].type = "update"
    BY <1>2, EventType DEF GuildUpdate
  <2>2. Merge(Nobody, members) = members
    BY <1>0 DEF Merge, Nobody, Membership
  <2>3. ~Missing(members, 0)
    BY <1>0, PresentFinite DEF Missing
  <2>4. members' = members /\ request' = request
    BY <2>1, <2>2, <2>3 DEF Update
  <2>5. members' = After(feed[1], members)
    BY <2>1, <2>4 DEF After
  <2> QED BY <2>1, <2>4, <2>5, SameEnlists
<1>3. CASE GuildMemberAdd
  <2>1. Next1("member add") /\ request' = request
    BY <1>3 DEF GuildMemberAdd
  <2>2. members' = After(feed[1], members)
    BY <1>3, <2>1 DEF GuildMemberAdd, After, Next1
  <2> QED BY <2>1, <2>2, SameEnlists
<1>4. CASE GuildMemberUpdate
  <2>1. Next1("member update") /\ request' = request
    BY <1>4 DEF GuildMemberUpdate
  <2>2. members' = After(feed[1], members)
    BY <1>4, <2>1 DEF GuildMemberUpdate, After, Next1
  <2> QED BY <2>1, <2>2, SameEnlists
<1>5. CASE GuildMemberRemove
  <2>1. Next1("member remove") /\ request' = request
    BY <1>5 DEF GuildMemberRemove
  <2>2. members' = After(feed[1], members)
    BY <1>5, <2>1 DEF GuildMemberRemove, After, Next1
  <2> QED BY <2>1, <2>2, SameEnlists
<1>6. CASE GuildMembersChunk
  <2>1. Next1("chunk") /\ request' = request
    BY <1>6 DEF GuildMembersChunk
  <2>2. members' = After(feed[1], members)
    BY <1>6, <2>1 DEF GuildMembersChunk, After, Next1
  <2> QED BY <2>1, <2>2, SameEnlists
<1>7. CASE GuildRoleDelete
  <2>1. Next1("role delete") /\ request' = request
    BY <1>7 DEF GuildRoleDelete
  <2>2. members' = After(feed[1], members)
    BY <1>7, <2>1 DEF GuildRoleDelete, Stripped, After, Next1
  <2> QED BY <2>1, <2>2, SameEnlists
<1>8. ASSUME NEW type \in {"role", "channel", "channel delete", "command", "command delete"},
             Next1(type), members' = members, request' = request
      PROVE  Enlists
  <2>1. members' = After(feed[1], members)
    BY <1>8 DEF After, Next1
  <2> QED BY <1>8, <2>1, SameEnlists
<1>9. CASE GuildRoleSet \/ ChannelSet \/ ChannelDelete
  BY <1>8, <1>9 DEF GuildRoleSet, ChannelSet, ChannelDelete
<1>10. CASE CommandSet \/ CommandDelete
  BY <1>8, <1>10 DEF CommandSet, CommandDelete
<1> QED BY <1>1, <1>2, <1>3, <1>4, <1>5, <1>6, <1>7, <1>9, <1>10 DEF Handled

(* Who is missed, counted.                                                 *)
Missed(g, m) == Present(g) \ Present(m)

(* With as many cached as there are, no more are missed than are too many. *)
LEMMA CountedMissed ==
    ASSUME NEW g \in Membership, NEW m \in Membership, NEW gone \in SUBSET Users,
           Present(m) \ Present(g) \subseteq gone,
           Cardinality(Present(m)) >= Cardinality(Present(g))
    PROVE  Cardinality(Missed(g, m)) <= Cardinality(gone)
<1> DEFINE A == Present(g)
           B == Present(m)
<1>1. IsFiniteSet(A) /\ IsFiniteSet(B) /\ Cardinality(A) \in Nat /\ Cardinality(B) \in Nat
  BY PresentFinite
<1>2. Cardinality(A \ B) = Cardinality(A) - Cardinality(A \cap B)
  BY <1>1, FS_Difference
<1>3. Cardinality(B \ A) = Cardinality(B) - Cardinality(B \cap A)
  BY <1>1, FS_Difference
<1>4. A \cap B = B \cap A
  OBVIOUS
<1>5. IsFiniteSet(gone) /\ Cardinality(gone) \in Nat
  BY FS_Subset, FS_CardinalityType
<1>6. Cardinality(B \ A) <= Cardinality(gone)
  BY <1>5, FS_Subset
<1>7. Cardinality(A \cap B) \in Nat /\ Cardinality(B \ A) \in Nat
  BY <1>1, FS_Difference, FS_Intersection, FS_CardinalityType
<1> QED BY <1>1, <1>2, <1>3, <1>4, <1>5, <1>6, <1>7 DEF Missed

(* Of fewer that are missed there is a smaller number.                     *)
LEMMA FewerMissed ==
    ASSUME NEW g \in Membership, NEW m, NEW g2, NEW m2,
           Missed(g2, m2) \subseteq Missed(g, m)
    PROVE  Cardinality(Missed(g2, m2)) <= Cardinality(Missed(g, m))
<1>1. IsFiniteSet(Missed(g, m))
  BY PresentFinite, FS_Subset DEF Missed
<1> QED BY <1>1, FS_Subset

(* Every GuildCreate to come finds as many members cached as it counts.    *)
Enough(f, n, h) ==
    \A j \in 1..n : f[j].type = "create" => Cardinality(Present(h[j])) >= f[j].count

MembersWere == IF phase = "loading" THEN first.members ELSE members
FirstEnough == phase = "loading" => Cardinality(Present(first.members)) >= first.count

(* The inductive invariant.  There is a course of the cached members       *)
(* through the events under way that is faithful at every point of it;     *)
(* and unless a request is out, was rejected or will be needed by some     *)
(* GuildCreate under way, at its end no more are missed than left unheard. *)
(* It speaks of every point, not only of the end, because a session can be *)
(* lost at any.                                                            *)
Remembers(h) ==
    /\ Course(feed, Len(feed), h, MembersWere)
    /\ Faithful(feed, Len(feed), h, guild.members, left, unheard)
    /\ request = "none" /\ FirstEnough /\ Enough(feed, Len(feed), h) =>
          Cardinality(Missed(guild.members, h[Len(feed)])) <= Cardinality(left)

Memory ==
    /\ phase = "loading" => members = Nobody
    /\ phase # "failed" => \E h : Remembers(h)

(* An event is taken in.                                                   *)
LEMMA EnlistsMemory == ASSUME TypeOK, Memory, Enlists PROVE Memory'
<1>1. PICK h : Remembers(h)
  BY DEF Memory, Enlists
<1> DEFINE n == Len(feed)
<1>2. /\ n \in Nat /\ n >= 1 /\ feed[1] \in Events
      /\ Course(feed, n, h, members) /\ MembersWere' = members'
      /\ Faithful(feed, n, h, guild.members, left, unheard)
      /\ phase' = "running"
  BY <1>1 DEF TypeOK, Enlists, Remembers, MembersWere
<1>3. members' = h[1]
  <2>1. h[0] = members /\ h[1] = After(feed[1], h[1 - 1])
    BY <1>2 DEF Course
  <2> QED BY <2>1 DEF Enlists
<1>4. request' = "none" =>
         request = "none" /\ (feed[1].type = "create" => Cardinality(Present(h[1])) >= feed[1].count)
  BY <1>3 DEF Enlists
<1>5. FirstEnough
  BY DEF FirstEnough, Enlists
<1>6. UNCHANGED <<guild, left, unheard>>
  BY DEF Enlists
<1>7. CASE feed' = Tail(feed)
  <2>1. /\ Len(feed') = n - 1
        /\ \A i \in 1..(n - 1) : feed'[i] = feed[i + 1]
    BY <1>2, <1>7 DEF TypeOK
  <2>2. PICK later : /\ Course(feed', n - 1, later, h[1])
                     /\ \A i \in 0..(n - 1) : later[i] = h[i + 1]
    <3>1. Shifted(feed', feed, n)
      BY <2>1 DEF Shifted
    <3> QED BY <1>2, <3>1, CourseLess
  <2>3. Faithful(feed', n - 1, later, guild.members, left, unheard)
    <3>1. Shifted(feed', feed, n)
      BY <2>1 DEF Shifted
    <3> QED BY <1>2, <2>2, <3>1, FaithfulLess
  <2>4. ASSUME request' = "none", Enough(feed', n - 1, later)
        PROVE  Enough(feed, n, h)
    <3>1. ASSUME NEW j \in 1..n, feed[j].type = "create"
          PROVE  Cardinality(Present(h[j])) >= feed[j].count
      <4>1. CASE j = 1
        BY <1>4, <2>4, <3>1, <4>1
      <4>2. CASE j # 1
        <5>1. j - 1 \in 1..(n - 1) /\ (j - 1) + 1 = j /\ j - 1 \in 0..(n - 1)
          BY <4>2
        <5>2. feed'[j - 1] = feed[j] /\ later[j - 1] = h[j]
          BY <2>1, <2>2, <5>1
        <5> QED BY <2>4, <3>1, <5>1, <5>2 DEF Enough
      <4> QED BY <4>1, <4>2
    <3> QED BY <3>1 DEF Enough
  <2>5. later[n - 1] = h[n]
    <3>1. n - 1 \in 0..(n - 1) /\ (n - 1) + 1 = n
      BY <1>2
    <3> QED BY <2>2, <3>1
  <2>6. request' = "none" /\ Enough(feed', n - 1, later) =>
           Cardinality(Missed(guild.members, later[n - 1])) <= Cardinality(left)
    BY <1>1, <1>4, <1>5, <2>4, <2>5 DEF Remembers
  <2>7. Remembers(later)'
    BY <1>2, <1>3, <1>6, <2>1, <2>2, <2>3, <2>6 DEF Remembers
  <2> QED BY <1>2, <2>7 DEF Memory
<1>8. CASE feed' = feed
  <2>1. PICK again : /\ Course(feed, n, again, h[1])
                     /\ again[0] = h[1]
                     /\ \A i \in 1..n : again[i] = h[i]
    BY <1>2, CourseAgain
  <2>2. Faithful(feed, n, again, guild.members, left, unheard)
    BY <1>2, <2>1, FaithfulAgain
  <2>3. Enough(feed, n, again) => Enough(feed, n, h)
    BY <2>1 DEF Enough
  <2>4. again[n] = h[n]
    BY <1>2, <2>1
  <2>5. request' = "none" /\ Enough(feed, n, again) =>
           Cardinality(Missed(guild.members, again[n])) <= Cardinality(left)
    BY <1>1, <1>4, <1>5, <2>3, <2>4 DEF Remembers
  <2>6. Remembers(again)'
    BY <1>2, <1>3, <1>6, <1>8, <2>1, <2>2, <2>5 DEF Remembers
  <2> QED BY <1>2, <2>6 DEF Memory
<1> QED BY <1>7, <1>8 DEF Enlists

(* An event is reported; it tells of its members, or is the answer to the  *)
(* request and tells of all.                                               *)
LEMMA ReportMemory ==
    ASSUME TypeOK, Memory, NEW e \in Events, Report(e), e.type # "create",
           UNCHANGED <<phase, first, members, left, unheard>>,
           guild'.members \in Membership, Follows(guild.members, guild'.members, e),
           \/ request' = request
           \/ \A m \in Membership : Missed(guild'.members, After(e, m)) = {}
    PROVE  Memory'
<1> SUFFICES ASSUME phase # "failed" PROVE \E h : Remembers(h)'
  BY DEF Memory
<1>1. PICK h : Remembers(h)
  BY DEF Memory
<1> DEFINE n == Len(feed)
<1>2. /\ n \in Nat /\ Len(feed') = n + 1
      /\ \A i \in 1..n : feed'[i] = feed[i]
      /\ feed'[n + 1] = e
  BY DEF TypeOK, Report
<1>3. /\ Course(feed, n, h, MembersWere) /\ MembersWere' = MembersWere
      /\ Faithful(feed, n, h, guild.members, left, unheard)
  BY <1>1 DEF Remembers, MembersWere
<1>4. PICK further : /\ Course(feed', n + 1, further, MembersWere)
                     /\ \A i \in 0..n : further[i] = h[i]
  BY <1>2, <1>3, CourseMore
<1>5. Faithful(feed', n + 1, further, guild'.members, left, unheard)
  BY <1>2, <1>3, <1>4, FaithfulMore
<1>6. h[n] \in Membership /\ further[n + 1] = After(e, h[n])
  <2>1. (n + 1) - 1 = n /\ n + 1 \in 1..(n + 1) /\ n \in 0..n
    BY <1>2
  <2> QED BY <1>2, <1>3, <1>4, <2>1 DEF Course
<1>7. IsFiniteSet(left) /\ Cardinality(left) \in Nat
  BY FS_Subset, FS_CardinalityType DEF TypeOK
<1>8. ASSUME request' = "none", FirstEnough', Enough(feed', n + 1, further)
      PROVE  Cardinality(Missed(guild'.members, further[n + 1])) <= Cardinality(left)
  <2>1. CASE request' = request
    <3>1. Enough(feed, n, h) /\ FirstEnough
      BY <1>2, <1>4, <1>8 DEF Enough, FirstEnough
    <3>2. Cardinality(Missed(guild.members, h[n])) <= Cardinality(left)
      BY <1>1, <1>8, <2>1, <3>1 DEF Remembers
    <3>3. Missed(guild'.members, further[n + 1]) \subseteq Missed(guild.members, h[n])
      <4> SUFFICES ASSUME NEW u \in Missed(guild'.members, After(e, h[n]))
                   PROVE  u \in Missed(guild.members, h[n])
        BY <1>6
      <4>1. After(e, h[n]) \in Membership /\ guild.members \in Membership
        BY <1>6, AfterType DEF TypeOK, GuildState
      <4>2. u \in Users /\ guild'.members[u] # Absent /\ After(e, h[n])[u] = Absent
        BY <4>1 DEF Missed, Present, Membership
      <4>3. guild.members[u] # Absent /\ h[n][u] = Absent
        BY <1>6, <4>2 DEF Follows
      <4> QED BY <1>6, <4>1, <4>2, <4>3 DEF Missed, Present, Membership
    <3>4. guild.members \in Membership
      BY DEF TypeOK, GuildState
    <3>5. Cardinality(Missed(guild'.members, further[n + 1]))
             <= Cardinality(Missed(guild.members, h[n]))
      BY <3>3, <3>4, FewerMissed
    <3>6. /\ Cardinality(Missed(guild'.members, further[n + 1])) \in Nat
          /\ Cardinality(Missed(guild.members, h[n])) \in Nat
      BY <3>4, PresentFinite, FS_Difference, FS_CardinalityType DEF Missed
    <3> QED BY <1>7, <3>2, <3>5, <3>6
  <2>2. CASE \A m \in Membership : Missed(guild'.members, After(e, m)) = {}
    <3>1. Cardinality(Missed(guild'.members, further[n + 1])) = 0
      BY <1>6, <2>2, FS_EmptySet
    <3> QED BY <1>7, <3>1
  <2> QED BY <2>1, <2>2
<1>9. Remembers(further)'
  BY <1>2, <1>3, <1>4, <1>5, <1>8 DEF Remembers
<1> QED BY <1>9

(* At the end of the course, where nothing is to come.                     *)
LEMMA FaithfulEnd ==
    ASSUME NEW n \in Nat, NEW f, NEW h, NEW g \in Membership, NEW gone, NEW open,
           h[n] \in Membership, Faithful(f, n, h, g, gone, open)
    PROVE  /\ Present(h[n]) \ Present(g) \subseteq gone
           /\ \A u \in Present(h[n]) \ open : h[n][u] = g[u]
<1>1. n \in 0..n /\ \A i : i \notin (n + 1)..n
  OBVIOUS
<1>2. \A u \in Users : h[n][u] # Absent =>
         /\ g[u] = Absent => u \in gone
         /\ h[n][u] # g[u] => u \in open
  BY <1>1 DEF Faithful, GoneAt, OpenAt
<1>3. DOMAIN h[n] = Users /\ DOMAIN g = Users
  BY DEF Membership
<1> QED BY <1>2, <1>3 DEF Present

(* What a lost session takes away is noted.                                *)
LEMMA LossNoted ==
    ASSUME TypeOK, SessionLost
    PROVE  \E k \in 0..Len(feed), S \in SUBSET Users :
              /\ feed' = Append(SubSeq(feed, 1, k), Create(guild, S))
              /\ \A u \in Users : GoneAt(feed, k, Len(feed), u, left) => u \in left'
              /\ \A u \in Users : OpenAt(feed, k, Len(feed), u, unheard) => u \in unheard'
<1>1. PICK k \in 0..Len(feed), S \in SUBSET Users :
      LET cut == {feed[i] : i \in (k + 1)..Len(feed)} IN
      /\ feed' = Append(SubSeq(feed, 1, k), Create(guild, S))
      /\ stale' = (stale \/ \E e \in cut : e.type \in {"command", "command delete"})
      /\ unheard' = unheard \cup UNION {About(e) : e \in cut}
      /\ left' = left \cup {e.user : e \in {d \in cut : d.type = "member remove"}}
  BY DEF SessionLost
<1> DEFINE cut == {feed[i] : i \in (k + 1)..Len(feed)}
<1>2. /\ unheard' = unheard \cup UNION {About(e) : e \in cut}
      /\ left' = left \cup {e.user : e \in {d \in cut : d.type = "member remove"}}
  BY <1>1, Zenon
<1>3. \A i \in (k + 1)..Len(feed) : feed[i] \in cut
  OBVIOUS
<1> HIDE DEF cut
<1>4. \A u \in Users : GoneAt(feed, k, Len(feed), u, left) => u \in left'
  <2> SUFFICES ASSUME NEW u, NEW i \in (k + 1)..Len(feed), Leaver(feed[i], u)
               PROVE  u \in left'
    BY <1>2, Zenon DEF GoneAt
  <2>1. feed[i] \in {d \in cut : d.type = "member remove"}
    BY <1>3, Zenon DEF Leaver
  <2>2. feed[i].user \in {e.user : e \in {d \in cut : d.type = "member remove"}}
    BY <2>1, Zenon
  <2> QED BY <1>2, <2>2, Zenon DEF Leaver
<1>5. \A u \in Users : OpenAt(feed, k, Len(feed), u, unheard) => u \in unheard'
  <2> SUFFICES ASSUME NEW u, NEW i \in (k + 1)..Len(feed), u \in About(feed[i])
               PROVE  u \in unheard'
    BY <1>2, Zenon DEF OpenAt
  <2>1. About(feed[i]) \in {About(e) : e \in cut}
    BY <1>3, Zenon
  <2> QED BY <1>2, <2>1, Zenon
<1>6. feed' = Append(SubSeq(feed, 1, k), Create(guild, S))
  BY <1>1, Zenon
<1> QED BY <1>4, <1>5, <1>6

(* A session is lost, and a GuildCreate starts the new one.                *)
LEMMA LossMemory == ASSUME TypeOK, Begun, Memory, SessionLost PROVE Memory'
<1>0. /\ phase # "failed" /\ request' = "none"
      /\ UNCHANGED <<phase, first, members, guild>>
  BY DEF SessionLost, cacheVars
<1>1. PICK h : Remembers(h)
  BY <1>0 DEF Memory
<1>2. PICK k \in 0..Len(feed), S \in SUBSET Users :
         /\ feed' = Append(SubSeq(feed, 1, k), Create(guild, S))
         /\ \A u \in Users : GoneAt(feed, k, Len(feed), u, left) => u \in left'
         /\ \A u \in Users : OpenAt(feed, k, Len(feed), u, unheard) => u \in unheard'
  BY LossNoted
<1> DEFINE e == Create(guild, S)
           g == guild.members
<1>3. /\ feed \in Seq(Events) /\ guild \in GuildState /\ g \in Membership
      /\ Len(feed) \in Nat /\ k \in Nat
  BY DEF TypeOK, GuildState
<1>4. /\ e \in Events /\ e.type = "create" /\ e.count = Cardinality(Present(g))
      /\ \A u \in Users : e.members[u] = g[u] \/ e.members[u] = Absent
  <2>1. DOMAIN g = Users
    BY <1>3 DEF Membership
  <2> QED BY <1>3, <2>1, CreateType DEF Events, Create, Partial
<1>5. Follows(g, g, e)
  BY <1>3, <1>4, FollowsTold
<1>6. /\ Len(feed') = k + 1 /\ feed'[k + 1] = e
      /\ \A i \in 1..k : feed'[i] = feed[i]
  <2>1. Len(feed') = k + 1 /\ feed'[k + 1] = e
    BY <1>2, <1>3, <1>4, CutFeed
  <2>2. \A i \in 1..k : feed'[i] = feed[i]
    BY <1>2, <1>3, <1>4, CutFeedStart
  <2> QED BY <2>1, <2>2
<1> HIDE DEF e
<1>7. Course(feed, Len(feed), h, MembersWere) /\ MembersWere' = MembersWere
      /\ Faithful(feed, Len(feed), h, g, left, unheard)
  BY <1>0, <1>1 DEF Remembers, MembersWere
<1>8. PICK start : /\ Course(feed, k, start, MembersWere)
                   /\ \A i \in 0..k : start[i] = h[i]
  BY <1>3, <1>7, CourseCut
<1>9. Faithful(feed, k, start, g, left', unheard')
  BY <1>2, <1>3, <1>7, <1>8, FaithfulCut
<1>10. PICK further : /\ Course(feed', k + 1, further, MembersWere)
                      /\ \A i \in 0..k : further[i] = start[i]
  BY <1>3, <1>4, <1>6, <1>8, CourseMore
<1>11. Faithful(feed', k + 1, further, g, left', unheard')
  BY <1>3, <1>4, <1>5, <1>6, <1>8, <1>9, <1>10, FaithfulMore
<1>12. ASSUME Enough(feed', k + 1, further)
       PROVE  Cardinality(Missed(g, further[k + 1])) <= Cardinality(left')
  <2>1. further[k + 1] \in Membership /\ k + 1 \in Nat /\ k + 1 \in 1..(k + 1)
    BY <1>3, <1>10 DEF Course
  <2>2. Cardinality(Present(further[k + 1])) >= Cardinality(Present(g))
    BY <1>4, <1>6, <1>12, <2>1 DEF Enough
  <2>3. Present(further[k + 1]) \ Present(g) \subseteq left'
    <3> DEFINE n == k + 1
    <3>1. n \in Nat /\ further[n] \in Membership /\ g \in Membership
      BY <1>3, <2>1
    <3>2. Faithful(feed', n, further, g, left', unheard')
      BY <1>11
    <3> HIDE DEF n, g
    <3>3. Present(further[n]) \ Present(g) \subseteq left'
      BY <3>1, <3>2, FaithfulEnd, Zenon
    <3> QED BY <3>3 DEF n, g
  <2>4. left' \in SUBSET Users
    BY LossKeepsType DEF TypeOK
  <2> QED BY <1>3, <2>1, <2>2, <2>3, <2>4, CountedMissed
<1>13. Remembers(further)'
  BY <1>0, <1>6, <1>7, <1>10, <1>11, <1>12 DEF Remembers
<1> QED BY <1>0, <1>13 DEF Memory

(* The first GuildCreate becomes the cache.                                *)
LEMMA LoadMemory == ASSUME TypeOK, Begun, Memory, Load PROVE Memory'
<1>1. /\ phase = "loading" /\ phase' = "running" /\ UNCHANGED <<feed, guild, left, unheard>>
      /\ Update(first.info, first.members, first.count)
      /\ members = Nobody /\ first \in Creates
  BY DEF Load, worldVars, lossVars, Memory, Begun
<1>2. first.members \in Membership /\ first.count \in Nat /\ members \in Membership
  BY <1>1 DEF Creates, TypeOK
<1>3. /\ members' = Merge(first.members, members)
      /\ request' = "none" =>
            request = "none" /\ Cardinality(Present(members')) >= first.count
  BY <1>1, <1>2, UpdateAsks
<1>4. members' = first.members
  <2>1. Merge(first.members, Nobody) = first.members
    BY <1>2 DEF Merge, Nobody, Membership
  <2> QED BY <1>1, <1>3, <2>1
<1>5. PICK h : Remembers(h)
  BY <1>1 DEF Memory
<1>6. MembersWere' = MembersWere /\ (request' = "none" => request = "none" /\ FirstEnough)
  BY <1>1, <1>3, <1>4 DEF MembersWere, FirstEnough
<1>7. Remembers(h)'
  BY <1>1, <1>5, <1>6 DEF Remembers
<1> QED BY <1>1, <1>7 DEF Memory

LEMMA InitMemory == Init => Memory
<1> SUFFICES ASSUME Init PROVE Memory
  OBVIOUS
<1>1. TypeOK /\ first \in Creates /\ phase = "loading" /\ members = Nobody /\ feed = <<>>
      /\ left = {} /\ unheard = {}
  BY InitStarts DEF Init, Begun
<1>2. PICK S \in SUBSET Users : first = Create(guild, S)
  BY DEF Init
<1> DEFINE g == guild.members
           m == first.members
           h == [i \in 0..0 |-> m]
<1>3. g \in Membership /\ m \in Membership /\ DOMAIN g = Users
  BY <1>1 DEF TypeOK, GuildState, Creates, Membership
<1>4. (\A u \in Users : m[u] = g[u] \/ m[u] = Absent) /\ first.count = Cardinality(Present(g))
  BY <1>2, <1>3 DEF Create, Partial
<1>5. Len(feed) = 0 /\ MembersWere = m
  BY <1>1 DEF MembersWere
<1>6. h \in [0..0 -> Membership] /\ h[0] = m
  BY <1>3
<1> HIDE DEF h, m, g
<1>7. Course(feed, 0, h, m)
  BY <1>6 DEF Course
<1>8. Faithful(feed, 0, h, g, left, unheard)
  <2> SUFFICES ASSUME NEW k \in 0..0, NEW u \in Users, h[k][u] # Absent
               PROVE  /\ g[u] = Absent => GoneAt(feed, k, 0, u, left)
                      /\ h[k][u] # g[u] => OpenAt(feed, k, 0, u, unheard)
    BY DEF Faithful
  <2>1. h[k][u] = g[u]
    BY <1>4, <1>6
  <2> QED BY <2>1
<1>9. ASSUME FirstEnough PROVE Cardinality(Missed(g, m)) <= Cardinality(left)
  <2>1. Cardinality(Present(m)) >= Cardinality(Present(g))
    BY <1>1, <1>4, <1>9 DEF FirstEnough, m
  <2>2. Present(m) \ Present(g) \subseteq left
    BY <1>3, <1>4 DEF Present, Membership
  <2>3. left \in SUBSET Users
    BY <1>1
  <2> QED BY <1>3, <2>1, <2>2, <2>3, CountedMissed
<1>10. Remembers(h)
  BY <1>5, <1>6, <1>7, <1>8, <1>9 DEF Remembers, g
<1> QED BY <1>1, <1>10 DEF Memory

(* The answer to the request for all members tells of all, and after it    *)
(* nobody is missed.                                                       *)
LEMMA AnswerFollows ==
    ASSUME TypeOK, AnswerRequest
    PROVE  \E e \in Events :
              /\ Report(e) /\ e.type = "chunk"
              /\ Follows(guild.members, guild.members, e)
              /\ \A m \in Membership : Missed(guild.members, After(e, m)) = {}
<1> DEFINE e == [type |-> "chunk", members |-> guild.members]
<1>1. guild.members \in Membership
  BY DEF TypeOK, GuildState
<1>2. e \in Events /\ e.type = "chunk" /\ e.members = guild.members /\ Report(e)
  BY <1>1 DEF Events, AnswerRequest
<1> HIDE DEF e
<1>3. Follows(guild.members, guild.members, e)
  BY <1>1, <1>2, FollowsTold
<1>4. ASSUME NEW m \in Membership PROVE Missed(guild.members, After(e, m)) = {}
  <2>1. After(e, m) = Merge(guild.members, m)
    BY <1>2 DEF After
  <2> QED BY <1>1, <2>1 DEF Missed, Present, Merge, Membership
<1> QED BY <1>2, <1>3, <1>4

LEMMA NextMemory == TypeOK /\ Begun /\ Memory /\ [Next]_vars => Memory'
<1> SUFFICES ASSUME TypeOK, Begun, Memory, [Next]_vars PROVE Memory'
  OBVIOUS
<1>1. CASE Handled
  BY <1>1, HandledEnlists, EnlistsMemory
<1>2. CASE Changes
  <2>1. PICK e \in Events : Tidings(e)
    BY <1>2, ChangesFollow
  <2>2. request' = request
    BY <1>2, ChangesTell DEF Tells, Change
  <2>3. /\ Report(e) /\ e.type # "create" /\ guild'.members \in Membership
        /\ Follows(guild.members, guild'.members, e)
        /\ UNCHANGED <<phase, first, members, left, unheard>>
    BY <2>1 DEF Tidings, cacheVars, lossVars
  <2> QED BY <2>2, <2>3, ReportMemory
<1>3. CASE AnswerRequest
  <2>1. PICK e \in Events :
           /\ Report(e) /\ e.type = "chunk"
           /\ Follows(guild.members, guild.members, e)
           /\ \A m \in Membership : Missed(guild.members, After(e, m)) = {}
    BY <1>3, AnswerFollows
  <2>2. UNCHANGED <<phase, first, members, left, unheard, guild>>
    BY <1>3 DEF AnswerRequest, cacheVars, worldVars, lossVars
  <2>3. guild'.members = guild.members /\ guild'.members \in Membership
    BY <2>2 DEF TypeOK, GuildState
  <2>4. e.type # "create"
    BY <2>1
  <2> QED BY <2>1, <2>2, <2>3, <2>4, ReportMemory
<1>4. CASE LoadFails
  BY <1>4 DEF LoadFails, Memory
<1>5. CASE UNCHANGED vars
  <2>1. UNCHANGED <<phase, first, members, request, feed, guild, left, unheard>>
    BY <1>5 DEF vars, cacheVars, worldVars, lossVars
  <2>2. \A h : Remembers(h) => Remembers(h)'
    BY <2>1 DEF Remembers, MembersWere, FirstEnough
  <2> QED BY <2>1, <2>2 DEF Memory
<1> QED BY <1>1, <1>2, <1>3, <1>4, <1>5, LoadMemory, LossMemory
        DEF Next, Discord, Quiet, Changes

LEMMA NextNaming == TypeOK /\ Naming /\ [Next]_vars => Naming'
<1> SUFFICES ASSUME TypeOK, Naming, [Next]_vars PROVE Naming'
  OBVIOUS
<1>1. CASE Handled
  BY <1>1, HandledFiles, FilesNaming
<1>2. CASE Changes
  <2>1. PICK e \in Events : Tidings(e)
    BY <1>2, ChangesFollow
  <2>2. CASE CommandNamed \/ CommandDeleted
    BY <2>2, NamedNaming, DeletedNaming
  <2>3. CASE ~(CommandNamed \/ CommandDeleted)
    <3>1. /\ Report(e) /\ e.type \notin {"command", "command delete"}
          /\ guild'.commands = guild.commands
          /\ UNCHANGED <<phase, commands, renamed, stale>>
      BY <2>1, <2>3 DEF Tidings, cacheVars, lossVars
    <3> QED BY <3>1, OtherNaming
  <2> QED BY <2>2, <2>3
<1>3. CASE AnswerRequest
  <2>1. PICK e \in Events : Report(e) /\ e.type = "chunk"
    BY <1>3, AnswerFollows
  <2>2. UNCHANGED <<phase, commands, renamed, stale, guild>>
    BY <1>3 DEF AnswerRequest, cacheVars, worldVars, lossVars
  <2>3. e.type \notin {"command", "command delete"}
    BY <2>1
  <2> QED BY <2>1, <2>2, <2>3, OtherNaming
<1>4. CASE LoadFails
  BY <1>4 DEF LoadFails, Naming, worldVars
<1>5. CASE UNCHANGED vars
  <2>1. UNCHANGED <<phase, commands, feed, guild, renamed, stale>>
    BY <1>5 DEF vars, cacheVars, worldVars, lossVars
  <2>2. \A n, c : /\ NameHeard(n, c)' = NameHeard(n, c)
                  /\ Settled(n)' = Settled(n)
    BY <2>1 DEF NameHeard, NameHistory, NameWas, Named, Settled, Owned
  <2> QED BY <2>1, <2>2 DEF Naming
<1> QED BY <1>1, <1>2, <1>3, <1>4, <1>5, LoadNaming, LossNaming
        DEF Next, Discord, Quiet, Changes

-----------------------------------------------------------------------------
(* What the cache promises.                                                *)

(* When every event was handled, a cached member is a member with the      *)
(* roles he has, but for those who left or of whom something was told in   *)
(* a part of the feed that was lost: through any number of changes,        *)
(* repeated events and lost sessions (guild.rs:37-43, 194-230, 241-247).   *)
THEOREM MembersConverge == Spec => []MembersAgree
<1>1. Init => TypeOK /\ Begun /\ Memory
  BY InitStarts, InitMemory
<1>2. TypeOK /\ Begun /\ Memory /\ [Next]_vars => (TypeOK /\ Begun /\ Memory)'
  BY NextKeepsType, NextMemory
<1>3. TypeOK /\ Memory => MembersAgree
  <2> SUFFICES ASSUME TypeOK, Memory, Drained
               PROVE  /\ Present(members) \ Present(guild.members) \subseteq left
                      /\ \A u \in Present(members) \ unheard : members[u] = guild.members[u]
    BY DEF MembersAgree
  <2>1. Len(feed) = 0 /\ phase = "running"
    BY DEF Drained
  <2>2. PICK h : Remembers(h)
    BY <2>1 DEF Memory
  <2>3. h[0] = members /\ Faithful(feed, 0, h, guild.members, left, unheard)
    BY <2>1, <2>2 DEF Remembers, Course, MembersWere
  <2>4. members \in Membership /\ guild.members \in Membership
    BY DEF TypeOK, GuildState
  <2> QED BY <2>3, <2>4, FaithfulEnd
<1> QED BY <1>1, <1>2, <1>3, PTL DEF Spec

(* Once the request for all members, if one was needed, was sent and       *)
(* answered, no more members are missing than left unheard, although the   *)
(* need is told by counting alone (guild.rs:45-50, 221-230).               *)
THEOREM MissingAreCounted == Spec => []MembersComplete
<1>1. Init => TypeOK /\ Begun /\ Memory
  BY InitStarts, InitMemory
<1>2. TypeOK /\ Begun /\ Memory /\ [Next]_vars => (TypeOK /\ Begun /\ Memory)'
  BY NextKeepsType, NextMemory
<1>3. TypeOK /\ Memory => MembersComplete
  <2> SUFFICES ASSUME TypeOK, Memory, Drained, request = "none"
               PROVE  Cardinality(Present(guild.members) \ Present(members)) <= Cardinality(left)
    BY DEF MembersComplete
  <2>1. Len(feed) = 0 /\ phase = "running"
    BY DEF Drained
  <2>2. PICK h : Remembers(h)
    BY <2>1 DEF Memory
  <2>3. h[0] = members
    BY <2>1, <2>2 DEF Remembers, Course, MembersWere
  <2>4. FirstEnough /\ Enough(feed, 0, h)
    BY <2>1 DEF FirstEnough, Enough
  <2> QED BY <2>1, <2>2, <2>3, <2>4 DEF Remembers, Missed
<1> QED BY <1>1, <1>2, <1>3, PTL DEF Spec

(* Every command is found by its name when every event was handled, and    *)
(* unless one was renamed nothing else is found, although the list is      *)
(* fetched while older changes are still under way (guild.rs:63-72, 140,   *)
(* 283-296).                                                               *)
THEOREM CommandsAreFound == Spec => []CommandsConverge
<1>1. Init => TypeOK /\ Begun /\ Naming
  BY InitStarts, InitNaming
<1>2. TypeOK /\ Begun /\ Naming /\ [Next]_vars => (TypeOK /\ Begun /\ Naming)'
  BY NextKeepsType, NextNaming
<1>3. TypeOK /\ Naming => CommandsConverge
  <2> SUFFICES ASSUME TypeOK, Naming, Drained, ~stale
               PROVE  /\ \A c \in Present(guild.commands) : commands[guild.commands[c]] = c
                      /\ ~renamed => commands = CommandList
    BY DEF CommandsConverge
  <2>1. Len(feed) = 0 /\ phase = "running"
    BY DEF Drained
  <2>2. /\ guild.commands \in [Commands -> Names \cup {Absent}]
        /\ commands \in [Names -> Commands \cup {Absent}]
    BY DEF TypeOK, GuildState
  <2>3. ASSUME NEW n \in Names, NEW c \in Commands, Settled(n)
        PROVE  commands[n] = c <=> guild.commands[c] = n
    <3>1. NameHeard(n, c)
      BY <2>1, <2>3 DEF Naming
    <3>2. NameWas(n, c) = Named(n, c)
      BY <2>1, <3>1 DEF NameHeard, Heard
    <3> QED BY <2>1, <3>2 DEF NameWas, Named, Flag
  <2>4. ASSUME NEW c \in Present(guild.commands) PROVE commands[guild.commands[c]] = c
    <3>1. c \in Commands /\ guild.commands[c] \in Names
      BY <2>2 DEF Present
    <3>2. Settled(guild.commands[c])
      BY <3>1 DEF Settled, Owned
    <3> QED BY <2>3, <3>1, <3>2
  <2>5. ASSUME ~renamed PROVE commands = CommandList
    <3>1. ASSUME NEW n \in Names PROVE commands[n] = CommandList[n]
      <4>1. \A c \in Commands : commands[n] = c <=> guild.commands[c] = n
        BY <2>3, <2>5 DEF Settled
      <4>2. CASE \E c \in Commands : guild.commands[c] = n
        <5>1. CommandList[n] = CHOOSE c \in Commands : guild.commands[c] = n
          BY <4>2 DEF CommandList
        <5>2. CommandList[n] \in Commands /\ guild.commands[CommandList[n]] = n
          BY <4>2, <5>1
        <5> QED BY <4>1, <5>2
      <4>3. CASE ~\E c \in Commands : guild.commands[c] = n
        <5>1. CommandList[n] = Absent
          BY <4>3 DEF CommandList
        <5>2. commands[n] \notin Commands
          BY <4>1, <4>3
        <5> QED BY <2>2, <5>1, <5>2
      <4> QED BY <4>2, <4>3
    <3>2. CommandList \in [Names -> Commands \cup {Absent}]
      BY ListType
    <3> QED BY <2>2, <3>1, <3>2
  <2> QED BY <2>4, <2>5
<1> QED BY <1>1, <1>2, <1>3, PTL DEF Spec
=============================================================================
