-------------------------------- MODULE Guild --------------------------------
(***************************************************************************)
(* The cache of a guild (src/src/guild.rs): built from a GuildCreate and   *)
(* the list of commands fetched over HTTP, then updated by every event     *)
(* that passes through next() on its way to the application.               *)
(*                                                                         *)
(* Discord is external: it holds the guild, reports every change by an     *)
(* event, in order, and answers a request for members with all of them.    *)
(* The gateway may deliver an event twice in a row (ResumedEventWasMissed  *)
(* in Session), and may lose the session: the events under way are gone    *)
(* then and a new GuildCreate follows.                                     *)
(*                                                                         *)
(* Roles and channels carry a version in place of their attributes, 0 when *)
(* there is none; members carry the roles they have.  Messages, reactions, *)
(* interactions and voice updates pass through next() without effect.      *)
(***************************************************************************)
EXTENDS Integers, Sequences, FiniteSets

CONSTANTS
    Users, Roles, Channels,  \* ids
    Commands,                \* ids of application commands
    Names,                   \* names they may have
    Absent,                  \* no member, no command
    Versions,                \* versions of a role or channel
    MaxChanges,              \* bound: changes of the guild
    MaxSessions,             \* bound: sessions lost
    MaxRepeats               \* bound: events delivered again

ASSUME GuildAssumption ==
    /\ Versions \subseteq Nat \ {0} /\ 1 \in Versions
    /\ MaxChanges \in Nat /\ MaxSessions \in Nat /\ MaxRepeats \in Nat
    /\ Absent \notin Names \cup Commands /\ \A R \in SUBSET Roles : R # Absent
    /\ IsFiniteSet(Users)

VARIABLES
    phase,     \* "loading" the commands in new(), "running", or "failed"
    first,     \* the GuildCreate new() was called with, until it is used
    roles,     \* the cache
    channels,
    members,
    commands,  \* by name
    request,   \* the request for all members: "none", "sent" or "rejected"
    feed,      \* events on their way to next()
    guild,     \* Discord: the guild
    changes, lost, repeats,
    \* History, read by no action's guard.
    renamed,   \* a command was renamed
    stale,     \* a change of a command was lost with a session,
    unheard,   \* or something about these users,
    left       \* or that these left

cacheVars == <<roles, channels, members, commands>>
lossVars == <<stale, unheard, left>>
worldVars == <<guild, changes, lost, renamed, lossVars>>
vars == <<phase, first, cacheVars, request, feed, repeats, worldVars>>

Versioned(S) == [S -> Versions \cup {0}]
Membership == [Users -> (SUBSET Roles) \cup {Absent}]

Info == [roles : Versioned(Roles), channels : Versioned(Channels)]
Creates == [type : {"create"}, info : Info, members : Membership, count : Nat]
Events == Creates
    \cup [type : {"update"}, info : Info]
    \cup [type : {"member add", "member update"}, user : Users, roles : SUBSET Roles]
    \cup [type : {"member remove"}, user : Users]
    \cup [type : {"chunk"}, members : Membership]
    \cup [type : {"role"}, role : Roles, version : Versions]
    \cup [type : {"role delete"}, role : Roles]
    \cup [type : {"channel"}, channel : Channels, version : Versions]
    \cup [type : {"channel delete"}, channel : Channels]
    \cup [type : {"command", "command delete"}, command : Commands, name : Names]

GuildState == [roles : Versioned(Roles), channels : Versioned(Channels),
               members : Membership, commands : [Commands -> Names \cup {Absent}]]

TypeOK ==
    /\ phase \in {"loading", "running", "failed"}
    /\ first \in Creates \cup {Absent}
    /\ roles \in Versioned(Roles) /\ channels \in Versioned(Channels)
    /\ members \in Membership
    /\ commands \in [Names -> Commands \cup {Absent}]
    /\ request \in {"none", "sent", "rejected"}
    /\ feed \in Seq(Events)
    /\ guild \in GuildState
    /\ changes \in 0..MaxChanges /\ lost \in 0..MaxSessions
    /\ repeats \in 0..MaxRepeats
    /\ renamed \in BOOLEAN /\ stale \in BOOLEAN
    /\ unheard \in SUBSET Users /\ left \in SUBSET Users

-----------------------------------------------------------------------------
(* What Discord tells.                                                     *)

Present(f) == {u \in DOMAIN f : f[u] # Absent}
Existing(f) == {x \in DOMAIN f : f[x] # 0}
Partial(f, S) == [u \in DOMAIN f |-> IF u \in S THEN f[u] ELSE Absent]
InfoOf(g) == [roles |-> g.roles, channels |-> g.channels]

(* A GuildCreate tells some of the members, and how many there are.        *)
Create(g, S) == [type |-> "create", info |-> InfoOf(g), members |-> Partial(g.members, S),
                 count |-> Cardinality(Present(g.members))]

Nothing(S) == [x \in S |-> 0]
Nobody == [u \in Users |-> Absent]
Injective(f) == \A x, y \in Present(f) : f[x] = f[y] => x = y

Init ==
    /\ phase = "loading"
    /\ roles = Nothing(Roles) /\ channels = Nothing(Channels)
    /\ members = Nobody /\ commands = [n \in Names |-> Absent]
    /\ request = "none" /\ feed = <<>>
    /\ changes = 0 /\ lost = 0 /\ repeats = 0 /\ renamed = FALSE
    /\ stale = FALSE /\ unheard = {} /\ left = {}
    /\ \E known \in [Commands -> Names \cup {Absent}] :
          /\ Injective(known)
          /\ guild = [roles |-> [r \in Roles |-> 1], channels |-> [c \in Channels |-> 1],
                      members |-> [u \in Users |-> {}], commands |-> known]
    /\ \E S \in SUBSET Users : first = Create(guild, S)

-----------------------------------------------------------------------------
(* update(): roles and channels are replaced, members are added, and all   *)
(* members are requested when some are missing.                            *)

Merge(new, old) == [u \in Users |-> IF new[u] # Absent THEN new[u] ELSE old[u]]

\* Mutant: one missing member is let pass.
MissingMore(known, count) == Cardinality(Present(known)) + 1 < count
Missing(known, count) == Cardinality(Present(known)) < count

(* The request is dropped at a full command channel; an earlier one that   *)
(* was sent is still answered.                                             *)
Update(info, new, count) ==
    /\ roles' = info.roles /\ channels' = info.channels
    /\ members' = Merge(new, members)
    /\ IF Missing(Merge(new, members), count)
       THEN request' \in {"sent"} \cup (IF request = "sent" THEN {} ELSE {"rejected"})
       ELSE UNCHANGED request

(* new(): the commands are those there are when the request is answered,   *)
(* the rest is from the GuildCreate.                                       *)
CommandList == [n \in Names |-> IF \E c \in Commands : guild.commands[c] = n
                                THEN CHOOSE c \in Commands : guild.commands[c] = n
                                ELSE Absent]

Load ==
    /\ phase = "loading"
    /\ phase' = "running"
    /\ commands' = CommandList
    /\ Update(first.info, first.members, first.count)
    /\ first' = Absent
    /\ UNCHANGED <<feed, repeats, worldVars>>

LoadFails ==
    /\ phase = "loading"
    /\ phase' = "failed" /\ feed' = <<>> /\ first' = Absent
    /\ UNCHANGED <<cacheVars, request, repeats, worldVars>>

-----------------------------------------------------------------------------
(* next(): one event.  It may be delivered once more.                      *)
Next1(type) ==
    /\ phase = "running" /\ feed # <<>> /\ feed[1].type = type
    /\ \/ feed' = Tail(feed) /\ UNCHANGED repeats
       \/ repeats < MaxRepeats /\ repeats' = repeats + 1 /\ UNCHANGED feed
    /\ UNCHANGED <<phase, first, worldVars>>

GuildCreate ==
    /\ Next1("create")
    /\ Update(feed[1].info, feed[1].members, feed[1].count)
    /\ UNCHANGED commands

GuildUpdate ==
    /\ Next1("update")
    /\ Update(feed[1].info, Nobody, 0)
    /\ UNCHANGED commands

GuildMemberAdd ==
    /\ Next1("member add")
    /\ members' = [members EXCEPT ![feed[1].user] = feed[1].roles]
    /\ UNCHANGED <<roles, channels, commands, request>>

(* A member that is not cached is not added.                               *)
GuildMemberUpdate ==
    /\ Next1("member update")
    /\ members' = IF members[feed[1].user] = Absent THEN members
                  ELSE [members EXCEPT ![feed[1].user] = feed[1].roles]
    /\ UNCHANGED <<roles, channels, commands, request>>

GuildMemberRemove ==
    /\ Next1("member remove")
    /\ members' = [members EXCEPT ![feed[1].user] = Absent]
    /\ UNCHANGED <<roles, channels, commands, request>>

GuildMembersChunk ==
    /\ Next1("chunk")
    /\ members' = Merge(feed[1].members, members)
    /\ UNCHANGED <<roles, channels, commands, request>>

(* GuildRoleCreate and GuildRoleUpdate.                                    *)
GuildRoleSet ==
    /\ Next1("role")
    /\ roles' = [roles EXCEPT ![feed[1].role] = feed[1].version]
    /\ UNCHANGED <<channels, members, commands, request>>

(* A deleted role is taken from every member.                              *)
Without(f, role) == [u \in Users |-> IF f[u] = Absent THEN Absent ELSE f[u] \ {role}]
\* Mutant: the members keep it.
RolesKept(role) == members
Stripped(role) == Without(members, role)

GuildRoleDelete ==
    /\ Next1("role delete")
    /\ roles' = [roles EXCEPT ![feed[1].role] = 0]
    /\ members' = Stripped(feed[1].role)
    /\ UNCHANGED <<channels, commands, request>>

(* ChannelCreate and ChannelUpdate.                                        *)
ChannelSet ==
    /\ Next1("channel")
    /\ channels' = [channels EXCEPT ![feed[1].channel] = feed[1].version]
    /\ UNCHANGED <<roles, members, commands, request>>

\* Mutant: the deleted channel stays.
ChannelStays(channel) == channels
ChannelRemoved(channel) == [channels EXCEPT ![channel] = 0]

ChannelDelete ==
    /\ Next1("channel delete")
    /\ channels' = ChannelRemoved(feed[1].channel)
    /\ UNCHANGED <<roles, members, commands, request>>

(* ApplicationCommandCreate and ApplicationCommandUpdate insert under the  *)
(* name; an earlier name of the command stays.                             *)
\* Mutant: an insert that does not replace.
KeepFirst(name, command) == IF commands[name] = Absent THEN command ELSE commands[name]
Inserted(name, command) == command

CommandSet ==
    /\ Next1("command")
    /\ commands' = [commands EXCEPT ![feed[1].name] = Inserted(feed[1].name, feed[1].command)]
    /\ UNCHANGED <<roles, channels, members, request>>

CommandDelete ==
    /\ Next1("command delete")
    /\ commands' = [commands EXCEPT ![feed[1].name] = Absent]
    /\ UNCHANGED <<roles, channels, members, request>>

-----------------------------------------------------------------------------
(* Discord.                                                                *)

Report(event) == feed' = IF phase = "failed" THEN feed ELSE Append(feed, event)

Change(new, event) ==
    /\ changes < MaxChanges
    /\ changes' = changes + 1
    /\ guild' = new
    /\ Report(event)
    /\ UNCHANGED <<phase, first, cacheVars, request, lost, repeats, lossVars>>

MemberJoins == \E u \in Users :
    /\ guild.members[u] = Absent
    /\ Change([guild EXCEPT !.members[u] = {}],
              [type |-> "member add", user |-> u, roles |-> {}])
    /\ UNCHANGED renamed

MemberChanges == \E u \in Present(guild.members), R \in SUBSET Existing(guild.roles) :
    /\ R # guild.members[u]
    /\ Change([guild EXCEPT !.members[u] = R],
              [type |-> "member update", user |-> u, roles |-> R])
    /\ UNCHANGED renamed

MemberLeaves == \E u \in Present(guild.members) :
    /\ Change([guild EXCEPT !.members[u] = Absent],
              [type |-> "member remove", user |-> u])
    /\ UNCHANGED renamed

RoleSet == \E r \in Roles, v \in Versions :
    /\ v # guild.roles[r]
    /\ Change([guild EXCEPT !.roles[r] = v], [type |-> "role", role |-> r, version |-> v])
    /\ UNCHANGED renamed

(* The members lose the role, without an event of their own.               *)
RoleDeleted == \E r \in Roles :
    /\ guild.roles[r] # 0
    /\ Change([guild EXCEPT !.roles[r] = 0, !.members = Without(guild.members, r)],
              [type |-> "role delete", role |-> r])
    /\ UNCHANGED renamed

ChannelChanges == \E c \in Channels, v \in Versions :
    /\ v # guild.channels[c]
    /\ Change([guild EXCEPT !.channels[c] = v],
              [type |-> "channel", channel |-> c, version |-> v])
    /\ UNCHANGED renamed

ChannelDeleted == \E c \in Channels :
    /\ guild.channels[c] # 0
    /\ Change([guild EXCEPT !.channels[c] = 0], [type |-> "channel delete", channel |-> c])
    /\ UNCHANGED renamed

GuildChanges ==
    /\ Change(guild, [type |-> "update", info |-> InfoOf(guild)])
    /\ UNCHANGED renamed

(* A command is created or gets another name; names are unique.            *)
CommandNamed == \E c \in Commands, n \in Names :
    /\ \A d \in Commands : guild.commands[d] # n
    /\ Change([guild EXCEPT !.commands[c] = n],
              [type |-> "command", command |-> c, name |-> n])
    /\ renamed' = (renamed \/ guild.commands[c] # Absent)

CommandDeleted == \E c \in Present(guild.commands) :
    /\ Change([guild EXCEPT !.commands[c] = Absent],
              [type |-> "command delete", command |-> c, name |-> guild.commands[c]])
    /\ UNCHANGED renamed

AnswerRequest ==
    /\ request = "sent"
    /\ request' = "none"
    /\ Report([type |-> "chunk", members |-> guild.members])
    /\ UNCHANGED <<phase, first, cacheVars, repeats, worldVars>>

(* Of whom an event tells something; of a deleted role it may be anybody.  *)
About(e) == CASE e.type \in {"member add", "member update", "member remove"} -> {e.user}
              [] e.type = "role delete" -> Users
              [] OTHER -> {}

(* The session is lost: the rest of the feed from some event on, and       *)
(* whatever was requested; the new one starts with a GuildCreate.          *)
SessionLost ==
    /\ phase # "failed" /\ lost < MaxSessions
    /\ lost' = lost + 1
    /\ \E k \in 0..Len(feed), S \in SUBSET Users :
          LET cut == {feed[i] : i \in (k + 1)..Len(feed)} IN
          /\ feed' = Append(SubSeq(feed, 1, k), Create(guild, S))
          /\ stale' = (stale \/ \E e \in cut : e.type \in {"command", "command delete"})
          /\ unheard' = unheard \cup UNION {About(e) : e \in cut}
          /\ left' = left \cup {e.user : e \in {d \in cut : d.type = "member remove"}}
    /\ request' = "none"
    /\ UNCHANGED <<phase, first, cacheVars, guild, changes, repeats, renamed>>

-----------------------------------------------------------------------------
Handled == \/ GuildCreate \/ GuildUpdate \/ GuildMemberAdd \/ GuildMemberUpdate
           \/ GuildMemberRemove \/ GuildMembersChunk \/ GuildRoleSet \/ GuildRoleDelete
           \/ ChannelSet \/ ChannelDelete \/ CommandSet \/ CommandDelete
Discord == \/ MemberJoins \/ MemberChanges \/ MemberLeaves \/ RoleSet \/ RoleDeleted
           \/ ChannelChanges \/ ChannelDeleted \/ GuildChanges \/ CommandNamed
           \/ CommandDeleted \/ AnswerRequest \/ SessionLost

(* Nothing more to change or to handle.                                    *)
Quiet == changes = MaxChanges /\ feed = <<>> /\ UNCHANGED vars

Next == Load \/ LoadFails \/ Handled \/ Discord \/ Quiet

Spec == Init /\ [][Next]_vars

-----------------------------------------------------------------------------
(* Safety.                                                                 *)

Drained == phase = "running" /\ feed = <<>>

(* When every event was handled, duplicates included, the cache has        *)
(* Discord's roles and channels, lost sessions or not (guild.rs:33-43,     *)
(* 231-261).                                                               *)
DirectoryAgrees == Drained => roles = guild.roles /\ channels = guild.channels

(* A cached member is a member, with the roles he has, although a deleted  *)
(* role is reported once for all members.  Lost sessions leave exceptions, *)
(* and only these: somebody who left unheard stays cached, for update()    *)
(* never removes a member, and what was lost of others may be missed       *)
(* (guild.rs:37-43, 194-230, 241-247).                                     *)
MembersAgree ==
    Drained => /\ Present(members) \ Present(guild.members) \subseteq left
               /\ \A u \in Present(members) \ unheard : members[u] = guild.members[u]

(* No member is missing once the request for all members, if one was       *)
(* needed, was sent and answered, whatever joined and left meanwhile.  The *)
(* need is told by counting: members can be missed unasked after a lost    *)
(* session, but no more than left unheard (guild.rs:45-50, 221-230).       *)
MembersComplete ==
    (Drained /\ request = "none") =>
        Cardinality(Present(guild.members) \ Present(members)) <= Cardinality(left)

(* Although the commands are fetched at another time than the GuildCreate  *)
(* and older changes are still under way then, every command is found by   *)
(* its name in the end; and unless one was renamed nothing else is found   *)
(* (guild.rs:63-72, 140, 283-296).  No event reports commands lost with a  *)
(* session.                                                                *)
CommandsConverge ==
    (Drained /\ ~stale) =>
        /\ \A c \in Present(guild.commands) : commands[guild.commands[c]] = c
        /\ ~renamed => commands = CommandList
=============================================================================
