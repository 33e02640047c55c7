----------------------------- MODULE GeminiSource -----------------------------
(***************************************************************************)
(* The Gemini provider: AntigravityCliSource (source.ts), which runs one   *)
(* `agy` process per question, and AntigravityCliExecutor (client.ts),     *)
(* which ends a process that takes too long.  A probe asks for the version *)
(* and the quota and leaves its quota to the next collection, which asks   *)
(* for the credits.                                                        *)
(***************************************************************************)
EXTENDS CapacityCalls

VARIABLES
    version,            \* cachedVersion: "none", "old" or "supported"
    probedQuota,        \* "none", or the quota a probe read: "fresh", or (history) "left"
                        \* when no collection of that probe's refresh will take it
    executorClosed

geminiVars == <<version, probedQuota, executorClosed>>

GeminiInit == version = "none" /\ probedQuota = "none" /\ executorClosed = FALSE

Running == {o \in Calls : call[o].pc \in {"version", "quota", "credits"}}

\* A collection has its credits, or an error in their place, which is a resource as well;
\* any error makes it a partial one.
Collection(quota, creditsOk) ==
    IF quota \in {"read", "fresh", "left"} /\ creditsOk THEN "ok" ELSE "partial"

AskCredits(quota) == [Calling("collect", "credits") EXCEPT !.quota = quota]

\* readCapacity() once the version is known: it takes the quota the probe left.
Collecting ==
    IF executorClosed THEN Result("partial")
    ELSE IF probedQuota = "none" THEN Calling("collect", "quota") ELSE AskCredits(probedQuota)

GeminiCall(o, kind) ==
    /\ IF kind = "collect" /\ version = "supported"
         THEN call' = [call EXCEPT ![o] = Collecting] /\ probedQuota' = "none"
         ELSE /\ call' = [call EXCEPT ![o] =
                            IF executorClosed \/ (kind = "collect" /\ version = "old")
                              THEN Result("failed") ELSE Calling(kind, "version")]
              /\ probedQuota' = IF kind = "collect" /\ probedQuota = "fresh" THEN "left" ELSE probedQuota
    /\ UNCHANGED <<version, executorClosed>>

-----------------------------------------------------------------------------
(* A process ends with an answer, or without one: it cannot be started, fails, prints *)
(* something else, or is terminated.                                                  *)

\* The version, which may be too old to ask for anything.  It counts even if its process was
\* terminated for what it printed, as long as it exits well.
VersionEnds(o, answer) ==
    /\ call[o].pc = "version"
    /\ answer # "none" => call[o].cut # "late"
    /\ version' = IF answer = "none" THEN version ELSE answer
    /\ IF answer = "supported" /\ call[o].kind = "collect"
         THEN /\ call' = [call EXCEPT ![o] = IF executorClosed THEN Ended(o, "partial") ELSE Collecting]
              /\ probedQuota' = "none"
         ELSE /\ call' = [call EXCEPT ![o] = IF answer = "supported" /\ ~executorClosed
                                               THEN Calling("probe", "quota") ELSE Ended(o, "failed")]
              /\ UNCHANGED probedQuota
    /\ UNCHANGED executorClosed

\* The quota: a probe leaves it to the next collection, a collection goes on to the credits.
QuotaEnds(o, good) ==
    /\ call[o].pc = "quota"
    /\ good => call[o].cut = "no"
    /\ IF call[o].kind = "probe"
         THEN /\ probedQuota' = IF ~good THEN probedQuota
                                ELSE IF o = refresh.call THEN "fresh" ELSE "left"
              /\ call' = [call EXCEPT ![o] = Ended(o, IF good THEN "ok" ELSE "failed")]
         ELSE /\ call' = [call EXCEPT ![o] = IF executorClosed THEN Ended(o, "partial")
                                             ELSE AskCredits(IF good THEN "read" ELSE "none")]
              /\ UNCHANGED probedQuota
    /\ UNCHANGED <<version, executorClosed>>

\* The credits; the resources may turn out to be no valid collection.
CreditsEnd(o, good, valid) ==
    /\ call[o].pc = "credits"
    /\ good => call[o].cut = "no"
    /\ call' = [call EXCEPT ![o] = Ended(o, IF valid THEN Collection(@.quota, good) ELSE "failed")]
    /\ UNCHANGED geminiVars

Signalled(c) == [c EXCEPT !.signal = IF @ = "none" THEN "term" ELSE @]

\* The command prints too much, or takes too long: it is terminated.
CutShort(o) ==
    /\ o \in Running
    /\ \E why \in {"flooded", "late"} :
         /\ call[o].cut \notin {why, "late"}
         /\ call' = [call EXCEPT ![o] = [Signalled(@) EXCEPT !.cut = why]]
    /\ UNCHANGED geminiVars

\* A terminated process that goes on is killed; after that the run ends without it.
Escalate(o) ==
    /\ o \in Running /\ call[o].signal = "term"
    /\ call' = [call EXCEPT ![o].signal = "kill"]
    /\ UNCHANGED geminiVars

\* close(): no process is started any more, those that run are terminated.
GeminiClose ==
    /\ executorClosed' = TRUE
    /\ probedQuota' = "none"
    /\ call' = [o \in Calls |-> IF o \in Running THEN Signalled(call[o]) ELSE call[o]]
    /\ UNCHANGED version

Answered(o) ==
    \/ VersionEnds(o, "supported") \/ QuotaEnds(o, TRUE) \/ CreditsEnd(o, TRUE, TRUE)

Unanswered(o) ==
    \/ VersionEnds(o, "old") \/ VersionEnds(o, "none") \/ QuotaEnds(o, FALSE)
    \/ \E good, valid \in BOOLEAN : ~(good /\ valid) /\ CreditsEnd(o, good, valid)
=============================================================================
