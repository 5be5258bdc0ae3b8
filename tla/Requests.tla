------------------------------ MODULE Requests ------------------------------
(***************************************************************************)
(* Calls on Discord's HTTP API (src/src/client.rs) and the answers to      *)
(* interactions built from them (src/src/interaction.rs).  A call is a     *)
(* lazy future: nothing is sent before it is polled, and dropping it       *)
(* leaves the request wherever it was.  A response can also be spawned,    *)
(* and its builder cloned.  All requests have one time limit, for the      *)
(* answer's head and body together.                                        *)
(*                                                                         *)
(* Discord is external: it may handle a request late, or never, or handle  *)
(* it and have the answer replaced by an error of the gateway before it    *)
(* (5xx); with a 4xx it has done nothing.  It describes an error in JSON,  *)
(* or does not.                                                            *)
(***************************************************************************)
EXTENDS Naturals

CONSTANTS
    Calls,       \* bound: calls made
    Ops,         \* operations used
    Parts,       \* parts an answer to an interaction is made of
    None,        \* no operation, no result, no answer
    Rejections,  \* statuses by which Discord declines
    Failures     \* statuses that leave open what was done

AllOps == {"fetch", "reactions", "create", "edit", "delete", "put", "respond", "callback"}

(* What an answer shows, and what only qualifies it.                       *)
Visible == {"content", "embeds", "rows"}
AllParts == Visible \cup {"ephemeral", "mentions", "deferred"}

ASSUME RequestsAssumption ==
    /\ Ops \subseteq AllOps /\ Parts \subseteq AllParts
    /\ Rejections \subseteq {400, 401, 403, 404, 429}
    /\ Failures \subseteq 500..599
    /\ None \notin AllOps

VARIABLES
    op,        \* of each call: its operation,
    draft,     \* the parts of the answer it builds,
    stage,     \* where it is,
    detached,  \* whether it was spawned,
    result,    \* and the result it returned
    wire,      \* its request: "none", "travelling", "handled" or "lost"
    reply,     \* the answer to it, when there is one
    applied,   \* whether it took effect
    gone,      \* Discord: the message is deleted
    answered,  \* Discord: the interaction has its answer
    answer     \* Discord: the parts of that answer

callVars == <<op, draft, stage, detached, result>>
wireVars == <<wire, reply, applied>>
discordVars == <<gone, answered, answer>>
vars == <<callVars, wireVars, discordVars>>

Successes == [status : {200}, body : {"right", "other"}]
Errors(statuses) == [status : statuses, body : {"api", "other"}]
Replies == Successes \cup Errors(Rejections \cup Failures)

Statuses == [s \in {400, 401, 403, 404, 429, 502} |->
                CASE s = 400 -> "BadRequest"
                  [] s = 401 -> "InvalidToken"
                  [] s = 403 -> "NotPermitted"
                  [] s = 404 -> "NotFound"
                  [] s = 429 -> "RateLimited"
                  [] s = 502 -> "GatewayUnavailable"]

(* Error::Response stands for every other status.                          *)
ByStatus(status) == IF status \in DOMAIN Statuses THEN Statuses[status] ELSE "Response"

Results == {"Ok", "TimedOut", "BadRequest", "InvalidToken", "NotPermitted", "NotFound",
            "RateLimited", "GatewayUnavailable", "Response", "Api", "Decode", "Other"}

(* The type invariant.                                                     *)
TypeOK ==
    /\ op \in [Calls -> Ops \cup {None}]
    /\ draft \in [Calls -> SUBSET Parts]
    /\ stage \in [Calls -> {"unused", "built", "sent", "reading", "done", "dropped"}]
    /\ detached \in [Calls -> BOOLEAN]
    /\ result \in [Calls -> Results \cup {None}]
    /\ wire \in [Calls -> {"none", "travelling", "handled", "lost"}]
    /\ reply \in [Calls -> Replies \cup {None}]
    /\ applied \in [Calls -> BOOLEAN]
    /\ gone \in BOOLEAN
    /\ answered \in BOOLEAN /\ answer \in SUBSET Parts

Init ==
    /\ op = [c \in Calls |-> None]
    /\ draft = [c \in Calls |-> {}]
    /\ stage = [c \in Calls |-> "unused"]
    /\ detached = [c \in Calls |-> FALSE]
    /\ result = [c \in Calls |-> None]
    /\ wire = [c \in Calls |-> "none"]
    /\ reply = [c \in Calls |-> None]
    /\ applied = [c \in Calls |-> FALSE]
    /\ gone = FALSE
    /\ answered = FALSE /\ answer = {}

-----------------------------------------------------------------------------
(* Building.                                                               *)

Answers == {"respond", "callback"}

(* ResponseBuilder does not defer.                                         *)
PartsOf(o) == IF o = "respond" THEN Parts \ {"deferred"} ELSE Parts

(* A method of Client that returns a builder or a future, or respond().    *)
Make(c) == \E o \in Ops :
    /\ stage[c] = "unused"
    /\ op' = [op EXCEPT ![c] = o]
    /\ stage' = [stage EXCEPT ![c] = "built"]
    /\ UNCHANGED <<draft, detached, result, wireVars, discordVars>>

(* A builder's method that sets a part.                                    *)
AddPart(c) == \E p \in PartsOf(op[c]) :
    /\ stage[c] = "built" /\ op[c] \in Answers
    /\ draft' = [draft EXCEPT ![c] = @ \cup {p}]
    /\ UNCHANGED <<op, stage, detached, result, wireVars, discordVars>>

(* ResponseBuilder is Clone.                                               *)
CloneBuilder(c, d) ==
    /\ stage[c] = "built" /\ op[c] = "respond" /\ stage[d] = "unused"
    /\ op' = [op EXCEPT ![d] = "respond"]
    /\ draft' = [draft EXCEPT ![d] = draft[c]]
    /\ stage' = [stage EXCEPT ![d] = "built"]
    /\ UNCHANGED <<detached, result, wireVars, discordVars>>

-----------------------------------------------------------------------------
(* Sending.                                                                *)

Finish(c, r) ==
    /\ stage' = [stage EXCEPT ![c] = "done"]
    /\ result' = [result EXCEPT ![c] = r]
    /\ UNCHANGED <<op, draft, detached, wireVars, discordVars>>

(* get_reactions refuses an emoji without a name before anything is sent.  *)
NamelessEmoji(c) == stage[c] = "built" /\ op[c] = "reactions" /\ Finish(c, "BadRequest")

Submit(c) ==
    /\ stage[c] = "built"
    /\ stage' = [stage EXCEPT ![c] = "sent"]
    /\ wire' = [wire EXCEPT ![c] = "travelling"]
    /\ UNCHANGED <<op, draft, result, reply, applied, discordVars>>

(* The future is polled.                                                   *)
Send(c) == Submit(c) /\ UNCHANGED detached

(* ResponseBuilder::spawn.                                                 *)
Spawn(c) ==
    /\ op[c] = "respond" /\ Submit(c)
    /\ detached' = [detached EXCEPT ![c] = TRUE]

(* The future is dropped; one that was spawned cannot be.                  *)
Drop(c) ==
    /\ stage[c] \in {"built", "sent", "reading"} /\ ~detached[c]
    /\ stage' = [stage EXCEPT ![c] = "dropped"]
    /\ UNCHANGED <<op, draft, detached, result, wireVars, discordVars>>

-----------------------------------------------------------------------------
(* Discord.                                                                *)

OnMessage == {"fetch", "reactions", "edit", "delete"}

(* What InteractionResponse::send puts on the wire: a response of nothing  *)
(* visible loses its data, flags and allowed mentions included; the type   *)
(* of the response stays.                                                  *)
\* Mutant: ResponseBuilder::send forgets the rows.
CarriedRowless(parts) == parts \ {"rows"}
Carried(parts) ==
    IF parts \cap Visible = {} THEN parts \cap {"deferred"} ELSE parts

Possible(c) ==
    /\ op[c] \in OnMessage => ~gone
    /\ op[c] \in Answers => ~answered

Handle(c, replies) ==
    /\ wire[c] = "travelling"
    /\ wire' = [wire EXCEPT ![c] = "handled"]
    /\ \E r \in replies : reply' = [reply EXCEPT ![c] = r]
    /\ UNCHANGED callVars

(* It is done, and the answer may still be an error of the gateway.        *)
Accept(c) ==
    /\ Possible(c)
    /\ Handle(c, Successes \cup Errors(Failures))
    /\ applied' = [applied EXCEPT ![c] = TRUE]
    /\ gone' = (gone \/ op[c] = "delete")
    /\ IF op[c] \in Answers
       THEN answered' = TRUE /\ answer' = Carried(draft[c])
       ELSE UNCHANGED <<answered, answer>>

(* It is not done.  A message is only not found when it is gone.           *)
Decline(c) ==
    /\ Handle(c, {r \in Errors(Rejections \cup Failures) :
                    r.status = 404 /\ op[c] \in OnMessage => gone})
    /\ UNCHANGED <<applied, discordVars>>

(* The request never arrives.                                              *)
Lose(c) ==
    /\ wire[c] = "travelling"
    /\ wire' = [wire EXCEPT ![c] = "lost"]
    /\ UNCHANGED <<callVars, reply, applied, discordVars>>

(* Somebody else deletes the message.                                      *)
Vanish == ~gone /\ gone' = TRUE /\ UNCHANGED <<callVars, wireVars, answered, answer>>

-----------------------------------------------------------------------------
(* The answer: check_response_code and decode.                             *)

(* Calls that return () look at no body of a success.                      *)
Discarding == {"delete", "put", "respond", "callback"}

(* error_for_status.                                                       *)
\* Mutant: a call without a result takes any answer for a success.
SucceedsUnchecked(c) == reply[c].status < 300 \/ op[c] \in Discarding
Succeeds(c) == reply[c].status < 300

(* The head arrives; what is left to read is the body, of a success that   *)
(* is decoded, or of an error.                                             *)
Head(c) ==
    /\ stage[c] = "sent" /\ wire[c] = "handled"
    /\ IF Succeeds(c) /\ op[c] \in Discarding
       THEN Finish(c, "Ok")
       ELSE /\ stage' = [stage EXCEPT ![c] = "reading"]
            /\ UNCHANGED <<op, draft, detached, result, wireVars, discordVars>>

(* An error with a description is that description, whatever its status.   *)
Body(c) ==
    /\ stage[c] = "reading"
    /\ Finish(c, IF Succeeds(c)
                 THEN IF reply[c].body = "right" THEN "Ok" ELSE "Decode"
                 ELSE IF reply[c].body = "api" THEN "Api" ELSE ByStatus(reply[c].status))

(* What a call that breaks off returns: an error's body is not missed.     *)
BrokenOff(c, r) ==
    IF stage[c] = "reading" /\ ~Succeeds(c) THEN ByStatus(reply[c].status) ELSE r

\* Mutant: the limit covers the head only.
AwaitingHead == {"sent"}
Awaiting == {"sent", "reading"}

Break(c) == stage[c] \in {"sent", "reading"} /\ Finish(c, BrokenOff(c, "Other"))

(* Ten seconds for the whole call.                                         *)
Timeout(c) == stage[c] \in Awaiting /\ Finish(c, BrokenOff(c, "TimedOut"))

-----------------------------------------------------------------------------
Building(c) == Make(c) \/ AddPart(c) \/ NamelessEmoji(c) \/ Send(c) \/ Spawn(c) \/ Drop(c)
Reading(c) == Head(c) \/ Body(c) \/ Break(c) \/ Timeout(c)
Serving(c) == Accept(c) \/ Decline(c) \/ Lose(c)

Next ==
    \/ \E c \in Calls : Building(c) \/ Reading(c) \/ Serving(c)
    \/ \E c, d \in Calls : CloneBuilder(c, d)
    \/ Vanish

Spec == Init /\ [][Next]_vars

(* Fairness: the clock.  Nothing makes Discord or the network answer.      *)
FairSpec == Spec /\ \A c \in Calls : WF_vars(Timeout(c))

-----------------------------------------------------------------------------
(* Properties.                                                             *)

(* What the application learns of a call.  A described error says nothing: *)
(* its status is gone, so it may be a failure.                             *)
Yes == {"Ok", "Decode"}
No == {"BadRequest", "InvalidToken", "NotPermitted", "NotFound", "RateLimited"}

Verdict(c) ==
    CASE stage[c] = "dropped" -> IF wire[c] = "none" THEN "no" ELSE "unknown"
      [] stage[c] = "done" ->
            IF result[c] \in Yes THEN "yes" ELSE IF result[c] \in No THEN "no" ELSE "unknown"
      [] OTHER -> "pending"

Call(c) == INSTANCE RemoteCall WITH applied <- applied[c], verdict <- Verdict(c)

(* The results are true for ever: a call that returned Ok or a decoding    *)
(* error took effect; one that returned an error of a 4xx status, or was   *)
(* dropped before it was polled, did not and never will, although requests *)
(* are handled late and calls are dropped, cloned and spawned              *)
(* (client.rs:70-94, 472-493, interaction.rs:97-141).                      *)
KeepsCallContract == [][\A c \in Calls : [Call(c)!Next]_(Call(c)!vars)]_vars

(* The answer that an interaction shows is, part for part, the draft of    *)
(* one of the builders, at the time it was sent, never a mixture of        *)
(* clones; and an answer meant for one user only shows nothing to others   *)
(* (interaction.rs:97-130, client.rs:869-985).                             *)
AnswerIsDraft ==
    answered => \E c \in Calls :
        /\ op[c] \in Answers /\ applied[c]
        /\ \A d \in Calls : d # c /\ op[d] \in Answers => ~applied[d]
        /\ answer \cap Visible = draft[c] \cap Visible
        /\ answer \cap Visible # {} => answer = draft[c]

(* A call that was sent ends, spawned or awaited, although nothing makes   *)
(* Discord answer (client.rs:153-157).                                     *)
CallsEnd ==
    \A c \in Calls :
        stage[c] \in {"sent", "reading"} ~> stage[c] \in {"done", "dropped"}
=============================================================================
