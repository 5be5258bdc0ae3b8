--------------------------- MODULE Requests_proofs ---------------------------
(***************************************************************************)
(* Theorems about Requests, for any number of concurrent calls of any      *)
(* operations, any drafts and any statuses.                                *)
(***************************************************************************)
EXTENDS Requests, TLAPS

(* Arithmetic of the statuses.                                             *)
LEMMA Rejected == ASSUME NEW s \in Rejections PROVE s \in Nat /\ s >= 400 /\ s < 500
  BY RequestsAssumption DEF RequestsAssumption

LEMMA Failed == ASSUME NEW s \in Failures PROVE s \in Nat /\ s >= 500
  BY RequestsAssumption DEF RequestsAssumption

(* A status is classified.                                                 *)
LEMMA RejectedIsNo == ASSUME NEW s \in Rejections PROVE ByStatus(s) \in No
  BY RequestsAssumption DEF RequestsAssumption, ByStatus, Statuses, No

LEMMA FailedIsOpen ==
  ASSUME NEW s \in Failures PROVE ByStatus(s) \in {"GatewayUnavailable", "Response"}
  BY RequestsAssumption DEF RequestsAssumption, ByStatus, Statuses

(* A failure is neither a rejection nor a success.                         *)
LEMMA FailuresApart == ASSUME NEW s \in Failures PROVE s \notin Rejections /\ s # 200
  BY Rejected, Failed

LEMMA SuccessApart == 200 \notin Rejections
  BY Rejected

(* What a reply's status says of success.                                  *)
LEMMA ReplyStatus ==
  ASSUME NEW r \in Replies
  PROVE  /\ r.status < 300 => r.status = 200
         /\ r.status = 200 => r.status < 300
         /\ r.status # 200 => r.status \in Rejections \cup Failures
<1>1. CASE r \in Successes
  <2>1. r.status = 200
    BY <1>1 DEF Successes
  <2> QED BY <2>1
<1>2. CASE r \in Errors(Rejections \cup Failures)
  <2>1. r.status \in Rejections \/ r.status \in Failures
    BY <1>2 DEF Errors
  <2>2. r.status \in Nat /\ r.status >= 400
    <3>1. CASE r.status \in Rejections
      BY <3>1, Rejected
    <3>2. CASE r.status \in Failures
      <4>1. r.status \in Nat /\ r.status >= 500
        BY <3>2, Failed
      <4> QED BY <4>1
    <3> QED BY <2>1, <3>1, <3>2
  <2> QED BY <2>1, <2>2
<1> QED BY <1>1, <1>2 DEF Replies

-----------------------------------------------------------------------------
(* Type correctness.                                                       *)

(* Every action of a call, and of Discord, keeps the types.                *)
LEMMA TypeStep == TypeOK /\ [Next]_vars => TypeOK'
<1> SUFFICES ASSUME TypeOK, [Next]_vars PROVE TypeOK'
  OBVIOUS
<1> USE DEF TypeOK, callVars, wireVars, discordVars
<1>1. ASSUME NEW c \in Calls, Make(c) PROVE TypeOK'
  BY <1>1 DEF Make
<1>2. ASSUME NEW c \in Calls, AddPart(c) PROVE TypeOK'
  <2>1. PICK p \in PartsOf(op[c]) : draft' = [draft EXCEPT ![c] = @ \cup {p}]
    BY <1>2 DEF AddPart
  <2>2. p \in Parts
    BY DEF PartsOf
  <2>3. draft' \in [Calls -> SUBSET Parts]
    BY <2>1, <2>2
  <2> QED BY <1>2, <2>3 DEF AddPart
<1>3. ASSUME NEW c \in Calls, NamelessEmoji(c) PROVE TypeOK'
  BY <1>3 DEF NamelessEmoji, Finish, Results
<1>4. ASSUME NEW c \in Calls, Send(c) PROVE TypeOK'
  BY <1>4 DEF Send, Submit
<1>5. ASSUME NEW c \in Calls, Spawn(c) PROVE TypeOK'
  BY <1>5 DEF Spawn, Submit
<1>6. ASSUME NEW c \in Calls, Drop(c) PROVE TypeOK'
  BY <1>6 DEF Drop
<1>7. ASSUME NEW c \in Calls, Accept(c) PROVE TypeOK'
  <2>1. PICK r \in Successes \cup Errors(Failures) : reply' = [reply EXCEPT ![c] = r]
    BY <1>7 DEF Accept, Handle
  <2>2. r \in Replies
    BY DEF Replies, Errors
  <2>3. wire' = [wire EXCEPT ![c] = "handled"] /\ applied' = [applied EXCEPT ![c] = TRUE]
        /\ UNCHANGED callVars
    BY <1>7 DEF Accept, Handle
  <2>4. gone' \in BOOLEAN /\ answered' \in BOOLEAN
    <3>1. gone' \in BOOLEAN
      BY <1>7 DEF Accept
    <3>2. answered' = TRUE \/ answered' = answered
      BY <1>7 DEF Accept
    <3> QED BY <3>1, <3>2
  <2>5. answer' \in SUBSET Parts
    BY <1>7 DEF Accept, Carried
  <2> QED BY <2>1, <2>2, <2>3, <2>4, <2>5
<1>8. ASSUME NEW c \in Calls, Decline(c) PROVE TypeOK'
  <2>1. PICK r \in Errors(Rejections \cup Failures) : reply' = [reply EXCEPT ![c] = r]
    BY <1>8 DEF Decline, Handle
  <2>2. r \in Replies
    BY DEF Replies, Errors
  <2> QED BY <1>8, <2>1, <2>2 DEF Decline, Handle
<1>9. ASSUME NEW c \in Calls, Lose(c) PROVE TypeOK'
  BY <1>9 DEF Lose
<1>10. ASSUME NEW c \in Calls, NEW r \in Results, Finish(c, r) PROVE TypeOK'
  BY <1>10 DEF Finish
<1>11. \A s : ByStatus(s) \in Results
  BY DEF ByStatus, Statuses, Results
<1>12. ASSUME NEW c \in Calls, Head(c) PROVE TypeOK'
  <2>1. CASE Finish(c, "Ok")
    BY <2>1, <1>10 DEF Results
  <2>2. CASE stage' = [stage EXCEPT ![c] = "reading"]
             /\ UNCHANGED <<op, draft, detached, result, wireVars, discordVars>>
    BY <2>2
  <2> QED BY <1>12, <2>1, <2>2 DEF Head
<1>13. ASSUME NEW c \in Calls, Body(c) PROVE TypeOK'
  BY <1>13, <1>10, <1>11 DEF Body, Results
<1>14. ASSUME NEW c \in Calls, Break(c) \/ Timeout(c) PROVE TypeOK'
  BY <1>14, <1>10, <1>11 DEF Break, Timeout, BrokenOff, Results
<1>15. ASSUME NEW c \in Calls, NEW d \in Calls, CloneBuilder(c, d) PROVE TypeOK'
  BY <1>15 DEF CloneBuilder
<1>16. CASE Vanish
  BY <1>16 DEF Vanish
<1>17. CASE UNCHANGED vars
  BY <1>17 DEF vars
<1> QED BY <1>1, <1>2, <1>3, <1>4, <1>5, <1>6, <1>7, <1>8, <1>9, <1>12, <1>13, <1>14,
           <1>15, <1>16, <1>17 DEF Next, Building, Reading, Serving

(* Calls, drafts, requests, replies and the answer keep their types.       *)
THEOREM TypeCorrect == Spec => []TypeOK
<1>1. Init => TypeOK
  <2> SUFFICES ASSUME Init PROVE TypeOK
    OBVIOUS
  <2>1. op \in [Calls -> Ops \cup {None}] /\ draft \in [Calls -> SUBSET Parts]
        /\ stage \in [Calls -> {"unused", "built", "sent", "reading", "done", "dropped"}]
    BY DEF Init
  <2>2. detached \in [Calls -> BOOLEAN] /\ result \in [Calls -> Results \cup {None}]
        /\ wire \in [Calls -> {"none", "travelling", "handled", "lost"}]
    BY DEF Init
  <2>3. reply \in [Calls -> Replies \cup {None}] /\ applied \in [Calls -> BOOLEAN]
    BY DEF Init
  <2>4. gone \in BOOLEAN /\ answered \in BOOLEAN /\ answer \in SUBSET Parts
    BY DEF Init
  <2> QED BY <2>1, <2>2, <2>3, <2>4 DEF TypeOK
<1> QED BY <1>1, TypeStep, PTL DEF Spec

-----------------------------------------------------------------------------
(* The contract of a call.                                                 *)

(* How the place of a call, its request and its effect hang together.      *)
CallOK(c) ==
    /\ wire[c] = "handled" =>
          /\ reply[c] \in Replies
          /\ reply[c].status = 200 => applied[c]
          /\ reply[c].status \in Rejections => ~applied[c]
    /\ wire[c] # "handled" => ~applied[c]
    /\ stage[c] \in {"unused", "built"} => wire[c] = "none"
    /\ stage[c] = "reading" => wire[c] = "handled"
    /\ (stage[c] = "done" /\ result[c] \in Yes) => applied[c]
    /\ (stage[c] = "done" /\ result[c] \in No) => ~applied[c] /\ wire[c] # "travelling"

CallsOK == \A c \in Calls : CallOK(c)

(* A call nothing happens to stays as it is.                               *)
LEMMA Untouched ==
  ASSUME NEW c \in Calls, CallOK(c), wire'[c] = wire[c], reply'[c] = reply[c],
         applied'[c] = applied[c], stage'[c] = stage[c], result'[c] = result[c]
  PROVE  CallOK(c)' /\ [Call(c)!Next]_(Call(c)!vars)
BY DEF CallOK, Call!Next, Call!vars, Verdict

(* A call ends with a result that is true of it.                           *)
LEMMA FinishStep ==
  ASSUME TypeOK, NEW c \in Calls, CallOK(c), NEW r \in Results, Finish(c, r),
         stage[c] \in {"built", "sent", "reading"},
         r \in Yes => applied[c],
         r \in No => ~applied[c] /\ wire[c] # "travelling"
  PROVE  CallOK(c)' /\ [Call(c)!Next]_(Call(c)!vars)
<1>1. stage'[c] = "done" /\ result'[c] = r /\ wire'[c] = wire[c] /\ reply'[c] = reply[c]
      /\ applied'[c] = applied[c]
  BY DEF Finish, TypeOK, wireVars
<1>2. CallOK(c)'
  BY <1>1 DEF CallOK
<1>3. Verdict(c) = "pending"
  BY DEF Verdict
<1>4. Verdict(c)' = IF r \in Yes THEN "yes" ELSE IF r \in No THEN "no" ELSE "unknown"
  BY <1>1 DEF Verdict
<1>5. Call(c)!Ends
  BY <1>1, <1>3, <1>4, Zenon DEF Call!Ends
<1> QED BY <1>2, <1>5 DEF Call!Next

(* What a call returns that breaks off, or has read an error, is true.     *)
LEMMA BrokenOffIsTrue ==
  ASSUME NEW c \in Calls, CallOK(c), stage[c] \in {"sent", "reading"},
         NEW r \in {"Other", "TimedOut"}
  PROVE  /\ BrokenOff(c, r) \in Results /\ BrokenOff(c, r) \notin Yes
         /\ BrokenOff(c, r) \in No => ~applied[c] /\ wire[c] # "travelling"
<1>1. CASE stage[c] = "reading" /\ ~Succeeds(c)
  <2>1. wire[c] = "handled" /\ reply[c] \in Replies
    BY <1>1 DEF CallOK
  <2>2. reply[c].status \in Rejections \/ reply[c].status \in Failures
    BY <1>1, <2>1, ReplyStatus DEF Succeeds
  <2>3. BrokenOff(c, r) = ByStatus(reply[c].status)
    BY <1>1 DEF BrokenOff
  <2>4. CASE reply[c].status \in Rejections
    <3>1. BrokenOff(c, r) \in No
      <4>1. ByStatus(reply[c].status) \in No
        BY <2>4, RejectedIsNo
      <4> QED BY <2>3, <4>1
    <3>2. ~applied[c] /\ wire[c] # "travelling"
      BY <2>1, <2>4 DEF CallOK
    <3> QED BY <3>1, <3>2 DEF No, Yes, Results
  <2>5. CASE reply[c].status \in Failures
    <3>1. BrokenOff(c, r) \in {"GatewayUnavailable", "Response"}
      BY <2>3, <2>5, FailedIsOpen
    <3> QED BY <3>1 DEF No, Yes, Results
  <2> QED BY <2>2, <2>4, <2>5
<1>2. CASE ~(stage[c] = "reading" /\ ~Succeeds(c))
  BY <1>2 DEF BrokenOff, No, Yes, Results
<1> QED BY <1>1, <1>2

(* The steps of a call itself.                                             *)
LEMMA ReadingStep ==
  ASSUME TypeOK, NEW c \in Calls, CallOK(c), Reading(c)
  PROVE  CallOK(c)' /\ [Call(c)!Next]_(Call(c)!vars)
<1>1. CASE Head(c)
  <2>1. stage[c] = "sent" /\ wire[c] = "handled" /\ reply[c] \in Replies
    BY <1>1 DEF Head, CallOK
  <2>2. CASE Succeeds(c) /\ op[c] \in Discarding
    <3>1. Finish(c, "Ok") /\ applied[c]
      BY <1>1, <2>1, <2>2, ReplyStatus DEF Head, Succeeds, CallOK
    <3> QED BY <2>1, <3>1, FinishStep DEF Results, Yes, No
  <2>3. CASE ~(Succeeds(c) /\ op[c] \in Discarding)
    <3>1. stage'[c] = "reading" /\ UNCHANGED <<result, wire, reply, applied>>
      BY <1>1, <2>3 DEF Head, TypeOK, wireVars
    <3> QED BY <2>1, <3>1 DEF CallOK, Call!Next, Call!vars, Verdict
  <2> QED BY <2>2, <2>3
<1>2. CASE Body(c)
  <2>1. stage[c] = "reading" /\ wire[c] = "handled" /\ reply[c] \in Replies
    BY <1>2 DEF Body, CallOK
  <2>2. CASE Succeeds(c)
    <3>1. applied[c]
      BY <2>1, <2>2, ReplyStatus DEF Succeeds, CallOK
    <3>2. Finish(c, "Ok") \/ Finish(c, "Decode")
      BY <1>2, <2>2 DEF Body
    <3> QED BY <2>1, <3>1, <3>2, FinishStep DEF Results, Yes, No
  <2>3. CASE ~Succeeds(c) /\ reply[c].body = "api"
    BY <1>2, <2>1, <2>3, FinishStep DEF Body, Results, Yes, No
  <2>4. CASE ~Succeeds(c) /\ reply[c].body # "api"
    <3>1. Finish(c, BrokenOff(c, "Other"))
      BY <1>2, <2>1, <2>4 DEF Body, BrokenOff
    <3> QED BY <2>1, <3>1, FinishStep, BrokenOffIsTrue
  <2> QED BY <2>2, <2>3, <2>4
<1>3. CASE Break(c)
  BY <1>3, FinishStep, BrokenOffIsTrue DEF Break
<1>4. CASE Timeout(c)
  <2>1. stage[c] \in {"sent", "reading"} /\ Finish(c, BrokenOff(c, "TimedOut"))
    BY <1>4 DEF Timeout, Awaiting
  <2> QED BY <2>1, FinishStep, BrokenOffIsTrue
<1> QED BY <1>1, <1>2, <1>3, <1>4 DEF Reading

(* Building, sending and dropping.                                         *)
LEMMA BuildingStep ==
  ASSUME TypeOK, NEW c \in Calls, CallOK(c), Building(c)
  PROVE  CallOK(c)' /\ [Call(c)!Next]_(Call(c)!vars)
<1>1. CASE Make(c)
  <2>1. stage[c] = "unused" /\ stage'[c] = "built" /\ UNCHANGED <<result, wire, reply, applied>>
    BY <1>1 DEF Make, TypeOK, wireVars
  <2> QED BY <2>1 DEF CallOK, Call!Next, Call!vars, Verdict
<1>2. CASE AddPart(c)
  BY <1>2, Untouched DEF AddPart, wireVars
<1>3. CASE NamelessEmoji(c)
  <2>1. stage[c] = "built" /\ wire[c] = "none" /\ ~applied[c] /\ Finish(c, "BadRequest")
    BY <1>3 DEF NamelessEmoji, CallOK
  <2> QED BY <2>1, FinishStep DEF Results, Yes, No
<1>4. CASE Send(c) \/ Spawn(c)
  <2>1. stage[c] = "built" /\ stage'[c] = "sent" /\ wire'[c] = "travelling"
        /\ UNCHANGED <<result, reply, applied>>
    BY <1>4 DEF Send, Spawn, Submit, TypeOK
  <2> QED BY <2>1 DEF CallOK, Call!Next, Call!vars, Verdict
<1>5. CASE Drop(c)
  <2>1. stage[c] \in {"built", "sent", "reading"} /\ stage'[c] = "dropped"
        /\ UNCHANGED <<result, wire, reply, applied>>
    BY <1>5 DEF Drop, TypeOK, wireVars
  <2>2. CallOK(c)'
    BY <2>1 DEF CallOK
  <2>3. Verdict(c) = "pending"
    BY <2>1 DEF Verdict
  <2>4. Verdict(c)' = IF wire[c] = "none" THEN "no" ELSE "unknown"
    BY <2>1 DEF Verdict
  <2>5. wire[c] = "none" => ~applied[c]
    BY DEF CallOK
  <2> QED BY <2>1, <2>2, <2>3, <2>4, <2>5, Zenon DEF Call!Next, Call!Ends
<1> QED BY <1>1, <1>2, <1>3, <1>4, <1>5 DEF Building

(* Discord's steps on a call's request.                                    *)
LEMMA ServingStep ==
  ASSUME TypeOK, NEW c \in Calls, CallOK(c), Serving(c)
  PROVE  CallOK(c)' /\ [Call(c)!Next]_(Call(c)!vars)
<1>0. wire[c] = "travelling" /\ ~applied[c] /\ UNCHANGED <<stage, result>>
  BY DEF Serving, Accept, Decline, Lose, Handle, callVars, CallOK
<1>1. CASE Accept(c)
  <2>1. PICK r \in Successes \cup Errors(Failures) : reply' = [reply EXCEPT ![c] = r]
    BY <1>1 DEF Accept, Handle
  <2>2. r \in Replies /\ r.status \notin Rejections
    <3>1. CASE r \in Successes
      BY <3>1, SuccessApart DEF Replies, Successes
    <3>2. CASE r \in Errors(Failures)
      <4>1. r.status \in Failures
        BY <3>2 DEF Errors
      <4>2. r.status \notin Rejections
        BY <4>1, FailuresApart
      <4> QED BY <3>2, <4>2 DEF Replies, Errors
    <3> QED BY <2>1, <3>1, <3>2
  <2>3. wire'[c] = "handled" /\ applied'[c] /\ reply'[c] = r
    BY <1>1, <2>1 DEF Accept, Handle, TypeOK
  <2>4. CallOK(c)'
    BY <1>0, <2>2, <2>3 DEF CallOK
  <2>5. Verdict(c) # "no" /\ Verdict(c)' = Verdict(c)
    BY <1>0, <2>3 DEF Verdict, CallOK
  <2>6. Call(c)!TakesEffect
    <3>1. applied'[c] = TRUE
      BY <1>1 DEF Accept, TypeOK
    <3> QED BY <1>0, <2>5, <3>1 DEF Call!TakesEffect
  <2> QED BY <2>4, <2>6 DEF Call!Next
<1>2. CASE Decline(c)
  <2>1. PICK r \in Errors(Rejections \cup Failures) : reply' = [reply EXCEPT ![c] = r]
    BY <1>2 DEF Decline, Handle
  <2>2. r \in Replies /\ r.status # 200
    <3>1. r.status \in Rejections \/ r.status \in Failures
      BY DEF Errors
    <3> QED BY <3>1, SuccessApart, FailuresApart DEF Replies
  <2>3. wire'[c] = "handled" /\ applied'[c] = applied[c] /\ reply'[c] = r
    BY <1>2, <2>1 DEF Decline, Handle, TypeOK
  <2>4. CallOK(c)'
    BY <1>0, <2>2, <2>3 DEF CallOK
  <2>5. Verdict(c)' = Verdict(c)
    BY <1>0, <2>3 DEF Verdict
  <2> QED BY <2>3, <2>4, <2>5 DEF Call!vars
<1>3. CASE Lose(c)
  <2>1. wire'[c] = "lost" /\ applied'[c] = applied[c]
    BY <1>3 DEF Lose, TypeOK
  <2>2. CallOK(c)'
    BY <1>0, <2>1 DEF CallOK
  <2>3. Verdict(c)' = Verdict(c)
    BY <1>0, <2>1 DEF Verdict
  <2> QED BY <2>1, <2>2, <2>3 DEF Call!vars
<1> QED BY <1>1, <1>2, <1>3 DEF Serving

(* A step of one call leaves every other alone.                            *)
LEMMA OthersUntouched ==
  ASSUME TypeOK, NEW c \in Calls, Building(c) \/ Reading(c) \/ Serving(c),
         NEW d \in Calls, d # c
  PROVE  /\ wire'[d] = wire[d] /\ reply'[d] = reply[d] /\ applied'[d] = applied[d]
         /\ stage'[d] = stage[d] /\ result'[d] = result[d]
<1> USE DEF TypeOK, wireVars, callVars, Finish
<1>1. CASE Building(c)
  BY <1>1 DEF Building, Make, AddPart, NamelessEmoji, Send, Spawn, Submit, Drop
<1>2. CASE Reading(c)
  BY <1>2 DEF Reading, Head, Body, Break, Timeout
<1>3. CASE Serving(c)
  BY <1>3 DEF Serving, Accept, Decline, Lose, Handle
<1> QED BY <1>1, <1>2, <1>3

(* Every step keeps the ledger, and is a step of every call's contract.    *)
LEMMA CallsStep ==
  ASSUME TypeOK, CallsOK, [Next]_vars, NEW d \in Calls
  PROVE  CallOK(d)' /\ [Call(d)!Next]_(Call(d)!vars)
<1>0. CallOK(d)
  BY DEF CallsOK
<1>1. ASSUME NEW c \in Calls, Building(c) \/ Reading(c) \/ Serving(c)
      PROVE  CallOK(d)' /\ [Call(d)!Next]_(Call(d)!vars)
  <2>1. CASE d = c
    BY <1>0, <1>1, <2>1, BuildingStep, ReadingStep, ServingStep
  <2>2. CASE d # c
    BY <1>0, <1>1, <2>2, OthersUntouched, Untouched
  <2> QED BY <2>1, <2>2
<1>2. ASSUME NEW b \in Calls, NEW c \in Calls, CloneBuilder(b, c)
      PROVE  CallOK(d)' /\ [Call(d)!Next]_(Call(d)!vars)
  <2>1. UNCHANGED <<result, wire, reply, applied>>
    BY <1>2 DEF CloneBuilder, wireVars
  <2>2. CASE d = c
    <3>1. stage[d] = "unused" /\ stage'[d] = "built"
      BY <1>2, <2>2 DEF CloneBuilder, TypeOK
    <3> QED BY <1>0, <2>1, <3>1 DEF CallOK, Call!Next, Call!vars, Verdict
  <2>3. CASE d # c
    <3>1. stage'[d] = stage[d]
      BY <1>2, <2>3 DEF CloneBuilder, TypeOK
    <3> QED BY <1>0, <2>1, <3>1, Untouched
  <2> QED BY <2>2, <2>3
<1>3. CASE Vanish \/ UNCHANGED vars
  BY <1>0, <1>3, Untouched DEF Vanish, vars, callVars, wireVars
<1> QED BY <1>1, <1>2, <1>3 DEF Next

(* The ledger is an invariant.                                             *)
LEMMA Ledger == Spec => []CallsOK
<1>1. Init => CallsOK
  <2> SUFFICES ASSUME Init, NEW c \in Calls PROVE CallOK(c)
    BY DEF CallsOK
  <2>1. wire[c] = "none" /\ applied[c] = FALSE /\ stage[c] = "unused"
    BY DEF Init
  <2> QED BY <2>1 DEF CallOK
<1>2. TypeOK /\ CallsOK /\ [Next]_vars => CallsOK'
  BY CallsStep DEF CallsOK
<1> QED BY <1>1, <1>2, TypeCorrect, PTL DEF Spec

(* However many calls are made at once, dropped, spawned or cloned, and    *)
(* however late or mute Discord is, each has at most one effect and a      *)
(* verdict that stays true (client.rs:70-94, 472-493).                     *)
THEOREM VerdictsAreTrue == Spec => KeepsCallContract
<1>1. TypeOK /\ CallsOK /\ [Next]_vars
        => [\A c \in Calls : [Call(c)!Next]_(Call(c)!vars)]_vars
  BY CallsStep
<1> QED BY <1>1, TypeCorrect, Ledger, PTL DEF Spec, KeepsCallContract

-----------------------------------------------------------------------------
(* The answer to an interaction.                                           *)

(* While the interaction has no answer, no answer took effect; once it     *)
(* has, exactly one did, and what is shown is what that one carried.  The  *)
(* draft is named as it is now: it is the draft that was sent, because a   *)
(* draft only grows while its builder was not sent.                        *)
Effective(c) == op[c] \in Answers /\ applied[c]

OneAnswer ==
    /\ ~answered => \A c \in Calls : ~Effective(c)
    /\ answered => \E c \in Calls :
          /\ Effective(c)
          /\ \A d \in Calls : d # c => ~Effective(d)
          /\ answer = Carried(draft[c])

(* A call that took effect was sent, and neither a builder nor a clone     *)
(* touches it any more (interaction.rs:97-130).                            *)
LEMMA SentIsFixed ==
  ASSUME TypeOK, CallsOK, [Next]_vars, NEW d \in Calls, applied[d]
  PROVE  op'[d] = op[d] /\ draft'[d] = draft[d] /\ applied'[d]
<1> USE DEF TypeOK, callVars, wireVars
<1>0. stage[d] \notin {"unused", "built"}
  BY DEF CallsOK, CallOK
<1>1. ASSUME NEW c \in Calls, Building(c)
      PROVE  op'[d] = op[d] /\ draft'[d] = draft[d] /\ applied'[d]
  BY <1>0, <1>1 DEF Building, Make, AddPart, NamelessEmoji, Send, Spawn, Submit, Drop, Finish
<1>2. ASSUME NEW c \in Calls, Reading(c)
      PROVE  op'[d] = op[d] /\ draft'[d] = draft[d] /\ applied'[d]
  BY <1>2 DEF Reading, Head, Body, Break, Timeout, Finish
<1>3. ASSUME NEW c \in Calls, Serving(c)
      PROVE  op'[d] = op[d] /\ draft'[d] = draft[d] /\ applied'[d]
  BY <1>3 DEF Serving, Accept, Decline, Lose, Handle
<1>4. ASSUME NEW b \in Calls, NEW c \in Calls, CloneBuilder(b, c)
      PROVE  op'[d] = op[d] /\ draft'[d] = draft[d] /\ applied'[d]
  BY <1>0, <1>4 DEF CloneBuilder
<1>5. CASE Vanish \/ UNCHANGED vars
  BY <1>5 DEF Vanish, vars
<1> QED BY <1>1, <1>2, <1>3, <1>4, <1>5 DEF Next

(* Discord alone answers an interaction, and by accepting a call; whatever *)
(* else happens, nothing takes effect and the answer stays.                *)
LEMMA OnlyAccepted ==
  ASSUME TypeOK, [Next]_vars, ~\E c \in Calls : Accept(c)
  PROVE  UNCHANGED <<applied, answered, answer>>
<1>1. ASSUME NEW c \in Calls, Building(c) PROVE UNCHANGED <<applied, answered, answer>>
  BY <1>1 DEF Building, Make, AddPart, NamelessEmoji, Send, Spawn, Submit, Drop, Finish,
              wireVars, discordVars
<1>2. ASSUME NEW c \in Calls, Reading(c) PROVE UNCHANGED <<applied, answered, answer>>
  BY <1>2 DEF Reading, Head, Body, Break, Timeout, Finish, wireVars, discordVars
<1>3. ASSUME NEW c \in Calls, Serving(c) PROVE UNCHANGED <<applied, answered, answer>>
  BY <1>3 DEF Serving, Decline, Lose, discordVars
<1>4. ASSUME NEW b \in Calls, NEW c \in Calls, CloneBuilder(b, c)
      PROVE  UNCHANGED <<applied, answered, answer>>
  BY <1>4 DEF CloneBuilder, wireVars, discordVars
<1>5. CASE Vanish \/ UNCHANGED vars
  BY <1>5 DEF Vanish, vars, wireVars, discordVars
<1> QED BY <1>1, <1>2, <1>3, <1>4, <1>5 DEF Next

(* Without an accepted call, no call becomes effective and none ceases to  *)
(* be: its operation could only change before it was sent.                 *)
LEMMA EffectiveStays ==
  ASSUME TypeOK, CallsOK, [Next]_vars, UNCHANGED applied, NEW d \in Calls
  PROVE  Effective(d)' <=> Effective(d)
<1>1. CASE applied[d]
  BY <1>1, SentIsFixed DEF Effective
<1>2. CASE ~applied[d]
  BY <1>2 DEF Effective
<1> QED BY <1>1, <1>2

(* Accepting an answer is the one step that answers, and only the first    *)
(* time; accepting any other call shows nothing.                           *)
LEMMA AcceptedAnswer ==
  ASSUME TypeOK, CallsOK, OneAnswer, NEW c \in Calls, Accept(c)
  PROVE  OneAnswer'
<1>1. UNCHANGED <<op, draft>> /\ applied' = [applied EXCEPT ![c] = TRUE]
  BY DEF Accept, Handle, callVars
<1>2. \A d \in Calls : d # c => (Effective(d)' <=> Effective(d))
  BY <1>1 DEF Effective, TypeOK
<1>3. CASE op[c] \in Answers
  <2>1. ~answered /\ answered' /\ answer' = Carried(draft[c])
    BY <1>3 DEF Accept, Possible
  <2>2. Effective(c)' /\ \A d \in Calls : d # c => ~Effective(d)'
    BY <1>1, <1>2, <1>3, <2>1 DEF Effective, OneAnswer, TypeOK
  <2>3. answer' = Carried(draft'[c])
    BY <1>1, <2>1
  <2> QED BY <2>1, <2>2, <2>3 DEF OneAnswer
<1>4. CASE op[c] \notin Answers
  <2>1. UNCHANGED <<answered, answer>>
    BY <1>4 DEF Accept
  <2>2. \A d \in Calls : Effective(d)' <=> Effective(d)
    BY <1>1, <1>2, <1>4 DEF Effective
  <2> QED BY <1>1, <2>1, <2>2 DEF OneAnswer
<1> QED BY <1>3, <1>4

(* Every step keeps it.                                                    *)
LEMMA OneAnswerStep == TypeOK /\ CallsOK /\ OneAnswer /\ [Next]_vars => OneAnswer'
<1> SUFFICES ASSUME TypeOK, CallsOK, OneAnswer, [Next]_vars PROVE OneAnswer'
  OBVIOUS
<1>1. CASE \E c \in Calls : Accept(c)
  BY <1>1, AcceptedAnswer
<1>2. CASE ~\E c \in Calls : Accept(c)
  <2>1. UNCHANGED <<applied, answered, answer>>
    BY <1>2, OnlyAccepted
  <2>2. \A d \in Calls : Effective(d)' <=> Effective(d)
    BY <2>1, EffectiveStays
  <2>3. ASSUME answered
        PROVE  \E c \in Calls : /\ Effective(c)'
                                /\ \A d \in Calls : d # c => ~Effective(d)'
                                /\ answer' = Carried(draft'[c])
    <3>1. PICK c \in Calls : /\ Effective(c)
                             /\ \A d \in Calls : d # c => ~Effective(d)
                             /\ answer = Carried(draft[c])
      BY <2>3 DEF OneAnswer
    <3>2. draft'[c] = draft[c]
      BY <3>1, SentIsFixed DEF Effective
    <3> QED BY <2>1, <2>2, <3>1, <3>2
  <2>4. ASSUME ~answered PROVE \A d \in Calls : ~Effective(d)'
    BY <2>2, <2>4 DEF OneAnswer
  <2> QED BY <2>1, <2>3, <2>4, Zenon DEF OneAnswer
<1> QED BY <1>1, <1>2

(* What is shown of the carried parts is what is visible of the draft, and *)
(* the whole draft when anything is: the flag that keeps an answer to one  *)
(* user is never lost from an answer that shows something                  *)
(* (client.rs:869-985).                                                    *)
LEMMA CarriedShows ==
  ASSUME NEW parts
  PROVE  /\ Carried(parts) \cap Visible = parts \cap Visible
         /\ Carried(parts) \cap Visible # {} => Carried(parts) = parts
BY DEF Carried, Visible

(* The interaction shows one builder's draft, whole, whatever was cloned,  *)
(* spawned, dropped or handled late (interaction.rs:97-130,                *)
(* client.rs:869-985).                                                     *)
THEOREM ShowsOneDraft == Spec => []AnswerIsDraft
<1>1. Init => OneAnswer
  BY DEF Init, OneAnswer, Effective
<1>2. Spec => []OneAnswer
  BY <1>1, OneAnswerStep, TypeCorrect, Ledger, PTL DEF Spec
<1>3. OneAnswer => AnswerIsDraft
  <2> SUFFICES ASSUME OneAnswer, answered PROVE AnswerIsDraft
    BY DEF AnswerIsDraft
  <2>1. PICK c \in Calls : /\ Effective(c)
                           /\ \A d \in Calls : d # c => ~Effective(d)
                           /\ answer = Carried(draft[c])
    BY DEF OneAnswer
  <2>2. op[c] \in Answers /\ applied[c]
        /\ \A d \in Calls : d # c /\ op[d] \in Answers => ~applied[d]
    BY <2>1 DEF Effective
  <2>3. answer \cap Visible = draft[c] \cap Visible
        /\ (answer \cap Visible # {} => answer = draft[c])
    BY <2>1, CarriedShows
  <2> QED BY <2>2, <2>3, Zenon DEF AnswerIsDraft
<1> QED BY <1>2, <1>3, PTL
=============================================================================
