------------------------------- MODULE SkillHub -------------------------------
(***************************************************************************)
(* The skill hub: a publisher's skill and its versions, which are          *)
(* published without a review, ratings with their aggregate on the skill's *)
(* row, installations, takedowns and restrictions of the publisher.        *)
(*                                                                         *)
(* There is one skill.  "Save" writes back the whole row that was read,    *)
(* with the counters it had.  A rating is a transaction of two steps: its  *)
(* own row is written and the ratings are counted, with what the others    *)
(* have committed; then the aggregate is written and all is committed.     *)
(***************************************************************************)
EXTENDS Objects, AuditLog

CONSTANTS
  Raters,        \* users who rate and install
  Releases,      \* version numbers of the skill
  Stars          \* the ratings there may be, positive numbers

VARIABLES
  skill,         \* skills: status ("none" without a row), versions and counters
  releases,      \* skill_versions: published or draft
  ratings,       \* skill_ratings of each user, 0 for none
  copies,        \* skill_installations of each user
  restrictions,  \* skill_publisher_restrictions: active or lifted
  allowed        \* has there been a moment without a restriction since each request asked

hubVars == <<skill, releases, ratings, copies, restrictions, allowed>>
others  == <<govVars, objVars, auditVars>>

NewSkill == [status |-> "draft", public |-> FALSE, latest |-> 0, published |-> 0,
             downloads |-> 0, count |-> 0, sum |-> 0]

\* The users who have a rating.
Rated(rated) == {u \in Raters : rated[u] # 0}

Count(rated) == Cardinality(Rated(rated))

Sum(rated) == Sets!MapThenSumSet(LAMBDA u : rated[u], Rated(rated))

SkillInit(start) ==
  /\ skill = IF start.skill = "none" THEN [NewSkill EXCEPT !.status = "none"]
             ELSE [NewSkill EXCEPT !.status = start.skill, !.public = start.skill = "published",
                                   !.latest = 1, !.published = 1]
  /\ releases = [v \in Releases |-> IF v = 1 /\ start.skill # "none" THEN "published" ELSE None]
  /\ ratings = [u \in Raters |-> 0]
  /\ copies = [u \in Raters |-> IF u \in start.copies
                                  THEN [version |-> 1, status |-> "active"] ELSE None]
  /\ restrictions = start.restrictions
  /\ allowed = [w \in Workers |-> FALSE]

Restricted == \E n \in DOMAIN restrictions : restrictions[n] = "active"

GetPublishedSkillByKey == skill.status = "published" /\ skill.public
-----------------------------------------------------------------------------
(* Publishers. *)

\* The request asks first whether its publisher is restricted, and is refused then.
EnsurePublisherAllowed(w, r, step) ==
  /\ ~ Restricted
  /\ Begin(w, r, step)
  /\ allowed' = [allowed EXCEPT ![w] = ~ Restricted]

BeginCreateSkill(w) ==
  /\ EnsurePublisherAllowed(w, [Request EXCEPT !.op = "skill"], "new-skill")
  /\ UNCHANGED <<skill, releases, ratings, copies, restrictions, others, notice>>

\* skill_key is unique.  An icon, which must be an active object, is left out.
CreateSkill(w) ==
  /\ pc[w] = "new-skill"
  /\ IF skill.status # "none" THEN Answer(w) /\ UNCHANGED skill
     ELSE skill' = NewSkill /\ Goto(w, "audit")
  /\ UNCHANGED <<releases, ratings, copies, restrictions, allowed, others, notice>>

\* Mutant of BeginSubmitSkill: a restricted publisher is not refused.
BeginSubmitSkill_Open(w) ==
  /\ \E v \in Releases, word \in {"valid", "invalid"}, o \in {0} \union DOMAIN objects :
       Begin(w, [Request EXCEPT !.op = "release", !.n = v, !.word = word, !.ref = o], "skill")
  /\ allowed' = [allowed EXCEPT ![w] = ~ Restricted]
  /\ UNCHANGED <<skill, releases, ratings, copies, restrictions, others, notice>>

BeginSubmitSkill(w) ==
  /\ \E v \in Releases, word \in {"valid", "invalid"}, o \in {0} \union DOMAIN objects :
       EnsurePublisherAllowed(w, [Request EXCEPT !.op = "release", !.n = v, !.word = word,
                                                 !.ref = o], "skill")
  /\ UNCHANGED <<skill, releases, ratings, copies, restrictions, others, notice>>

ReadSkill(w) ==
  /\ pc[w] = "skill"
  /\ IF skill.status = "none" THEN Answer(w)
     ELSE Keep(w, skill, IF req[w].op = "takedown" THEN "takedown"
                         ELSE IF req[w].ref # 0 THEN "asset" ELSE "release")
  /\ UNCHANGED <<hubVars, others, notice>>

RequireSkillAsset(w) ==
  /\ pc[w] = "asset"
  /\ IF RequireActiveOwnedObject(req[w].ref) THEN Goto(w, "release") ELSE Answer(w)
  /\ UNCHANGED <<hubVars, others, notice>>

\* The version is new; a valid one is published at once, also when the skill had been
\* taken down.  Only then is it audited.
SubmitSkillVersion(w) ==
  /\ pc[w] = "release"
  /\ IF releases[req[w].n] # None
       THEN Answer(w) /\ UNCHANGED <<skill, releases>>
       ELSE LET valid == req[w].word = "valid"
            IN  /\ releases' = [releases EXCEPT ![req[w].n] =
                                  IF valid THEN "published" ELSE "draft"]
                /\ skill' = IF valid
                     THEN [copy[w] EXCEPT !.latest = req[w].n, !.published = req[w].n,
                                          !.status = "published", !.public = TRUE]
                     ELSE [copy[w] EXCEPT !.latest = req[w].n]
                /\ SaveThen(w, IF valid THEN "audit" ELSE "idle", <<"skill">>, skill # copy[w])
  /\ UNCHANGED <<ratings, copies, restrictions, allowed, others, notice>>

BeginTakedown(w) ==
  /\ Begin(w, [Request EXCEPT !.op = "takedown"], "skill")
  /\ UNCHANGED <<hubVars, others, notice>>

TakedownSkill(w) ==
  /\ pc[w] = "takedown"
  /\ skill' = [copy[w] EXCEPT !.status = "suspended", !.public = FALSE]
  /\ SaveThen(w, "audit", <<"skill">>, skill # copy[w])
  /\ UNCHANGED <<releases, ratings, copies, restrictions, allowed, others, notice>>

\* Looked up first: a restriction that is active is the answer.
BeginRestrict(w) ==
  /\ ~ Restricted
  /\ Begin(w, [Request EXCEPT !.op = "restrict"], "restrict")
  /\ UNCHANGED <<hubVars, others, notice>>

\* No index keeps two attempts from creating two.
RestrictPublisher(w) ==
  /\ pc[w] = "restrict"
  /\ restrictions' = Append(restrictions, "active")
  /\ Goto(w, "audit")
  /\ UNCHANGED <<skill, releases, ratings, copies, allowed, others, notice>>

BeginLift(w) ==
  /\ \E n \in DOMAIN restrictions :
       /\ restrictions[n] = "active"
       /\ Begin(w, [Request EXCEPT !.op = "lift", !.n = n], "lift")
  /\ UNCHANGED <<hubVars, others, notice>>

\* One of the active restrictions is lifted.
LiftPublisherRestriction(w) ==
  /\ pc[w] = "lift"
  /\ restrictions' = [restrictions EXCEPT ![req[w].n] = "lifted"]
  /\ allowed' = IF Restricted' THEN allowed ELSE [v \in Workers |-> TRUE]
  /\ Goto(w, "audit")
  /\ UNCHANGED <<skill, releases, ratings, copies, others, notice>>
-----------------------------------------------------------------------------
(* Ratings. *)

\* The skill is published; a rating of 0 stands for the deletion of the user's rating.
BeginRate(w) ==
  /\ GetPublishedSkillByKey
  /\ \E u \in Raters, stars \in Stars \union {0} :
       Begin(w, [Request EXCEPT !.op = "rate", !.user = u, !.n = stars], "rate")
  /\ UNCHANGED <<hubVars, others, notice>>

\* In the transaction: the user's rating is written or deleted, and the ratings that
\* are visible are counted.
UpsertRating(w) ==
  /\ pc[w] = "rate"
  /\ LET mine == [ratings EXCEPT ![req[w].user] = req[w].n]
     IN  Keep(w, [seen |-> ratings, count |-> Count(mine), sum |-> Sum(mine)], "aggregate")
  /\ UNCHANGED <<hubVars, others, notice>>

\* Mutant of RecalculateSkillRatingAggregate: a deleted rating stays in the aggregate.
RecalculateSkillRatingAggregate_Kept(w) ==
  /\ pc[w] = "aggregate"
  /\ ratings' = [ratings EXCEPT ![req[w].user] = req[w].n]
  /\ skill' = IF req[w].n = 0 THEN skill
              ELSE [skill EXCEPT !.count = copy[w].count, !.sum = copy[w].sum]
  /\ SaveThen(w, "idle", <<"skill">>, ratings # copy[w].seen)
  /\ UNCHANGED <<releases, copies, restrictions, allowed, others, notice>>

\* The aggregate is written, and the transaction commits.  The second of two first
\* ratings of a user is refused by the unique index.
RecalculateSkillRatingAggregate(w) ==
  /\ pc[w] = "aggregate"
  /\ IF req[w].n # 0 /\ copy[w].seen[req[w].user] = 0 /\ ratings[req[w].user] # 0
       THEN Answer(w) /\ UNCHANGED <<skill, ratings>>
       ELSE /\ ratings' = [ratings EXCEPT ![req[w].user] = req[w].n]
            /\ skill' = [skill EXCEPT !.count = copy[w].count, !.sum = copy[w].sum]
            /\ SaveThen(w, "idle", <<"skill">>, ratings # copy[w].seen)
  /\ UNCHANGED <<releases, copies, restrictions, allowed, others, notice>>
-----------------------------------------------------------------------------
(* Installations. *)

BeginInstallSkill(w) ==
  /\ GetPublishedSkillByKey /\ skill.published # 0
  /\ \E u \in Raters :
       Begin(w, [Request EXCEPT !.op = "install-skill", !.user = u, !.n = skill.published,
                                !.row = <<"skill", u>>], "copy")
  /\ UNCHANGED <<hubVars, others, notice>>

GetSkillInstallation(w) ==
  /\ pc[w] = "copy"
  /\ IF copies[req[w].user] = None THEN Goto(w, "new-copy")
     ELSE Keep(w, copies[req[w].user], "save-copy")
  /\ UNCHANGED <<hubVars, others, notice>>

InstallSkill(w) ==
  /\ pc[w] = "new-copy"
  /\ IF copies[req[w].user] # None
       THEN Answer(w) /\ UNCHANGED copies
       ELSE LET row == [version |-> req[w].n, status |-> "active"]
            IN  /\ copies' = [copies EXCEPT ![req[w].user] = row]
                /\ Keep(w, row, "download-new")
  /\ UNCHANGED <<skill, releases, ratings, restrictions, allowed, others, notice>>

\* The installation that was read is saved as the row, and goes on to a step.
SaveCopy(w, row, step) ==
  /\ copies' = [copies EXCEPT ![req[w].user] = row]
  /\ pc' = [pc EXCEPT ![w] = step]
  /\ copy' = [copy EXCEPT ![w] = row]
  /\ stale' = IF copies[req[w].user] # copy[w] THEN stale \union {req[w].row} ELSE stale
  /\ UNCHANGED <<req, bound, skill, releases, ratings, restrictions, allowed, others, notice>>

\* An installation there is moves to the published version; the download counts when
\* it had been uninstalled.
ReinstallSkill(w) ==
  /\ pc[w] = "save-copy"
  /\ SaveCopy(w, [version |-> req[w].n, status |-> "active"],
              IF copy[w].status = "uninstalled" THEN "download" ELSE "announce")

\* The increment is one statement; an error of it is ignored.
IncrementDownloadCount(w) ==
  /\ pc[w] \in {"download", "download-new"}
  /\ skill' = [skill EXCEPT !.downloads = @ + 1]
  /\ Goto(w, IF pc[w] = "download" THEN "announce" ELSE "announce-new")
  /\ UNCHANGED <<releases, ratings, copies, restrictions, allowed, others, notice>>

BeginSkillStatus(w) ==
  /\ \E u \in Raters, status \in {"active", "disabled", "uninstalled"} :
       /\ copies[u] # None
       /\ BeginRead(w, [Request EXCEPT !.op = "skill-status", !.user = u, !.word = status,
                                       !.row = <<"skill", u>>], copies[u], "skill-status")
  /\ UNCHANGED <<hubVars, others, notice>>

SetSkillStatus(w) ==
  /\ pc[w] = "skill-status"
  /\ SaveCopy(w, [copy[w] EXCEPT !.status = req[w].word], "announce")

\* The user pins a version, which must be a published one, or changes only the
\* configuration, which is left out.
BeginUpdateInstallation(w) ==
  /\ \E u \in Raters, v \in Releases \union {0} :
       /\ copies[u] # None
       /\ BeginRead(w, [Request EXCEPT !.op = "pin", !.user = u, !.n = v,
                                       !.row = <<"skill", u>>], copies[u], "pin")
  /\ UNCHANGED <<hubVars, others, notice>>

UpdateInstallation(w) ==
  /\ pc[w] = "pin"
  /\ IF req[w].n = 0 THEN SaveCopy(w, copy[w], "announce")
     ELSE IF releases[req[w].n] = "published"
       THEN SaveCopy(w, [copy[w] EXCEPT !.version = req[w].n], "announce")
       ELSE Answer(w) /\ UNCHANGED <<hubVars, others, notice>>

RecordInstallationSync(w) ==
  /\ pc[w] \in {"announce", "announce-new"} /\ req[w].row[1] = "skill"
  /\ Tell(w, copy[w], copy[w] # copies[req[w].user])
  /\ IF pc[w] = "announce-new" THEN Goto(w, "audit") ELSE Answer(w)
  /\ UNCHANGED <<hubVars, others>>

HubNext ==
  \E w \in Workers :
    \/ BeginCreateSkill(w) \/ CreateSkill(w) \/ BeginSubmitSkill(w) \/ ReadSkill(w)
    \/ RequireSkillAsset(w) \/ SubmitSkillVersion(w) \/ BeginTakedown(w) \/ TakedownSkill(w)
    \/ BeginRestrict(w) \/ RestrictPublisher(w) \/ BeginLift(w) \/ LiftPublisherRestriction(w)
    \/ BeginRate(w) \/ UpsertRating(w) \/ RecalculateSkillRatingAggregate(w)
    \/ BeginInstallSkill(w) \/ GetSkillInstallation(w) \/ InstallSkill(w) \/ ReinstallSkill(w)
    \/ IncrementDownloadCount(w) \/ BeginSkillStatus(w) \/ SetSkillStatus(w)
    \/ BeginUpdateInstallation(w) \/ UpdateInstallation(w) \/ RecordInstallationSync(w)
-----------------------------------------------------------------------------
(* Properties. *)

\* The aggregate on the skill's row is that of the ratings, unless two rating
\* transactions overlapped or the row was saved from an old copy: deleted, changed
\* and refused ratings included (RateSkill, DeleteRating).
AggregateTrue ==
  <<"skill">> \notin stale =>
    skill.count = Count(ratings) /\ skill.sum = Sum(ratings)

\* A restricted publisher publishes nothing: a version appears only by a request that
\* saw a moment without a restriction (ensurePublisherAllowed, which is asked before
\* the skill is read).
RestrictedStaysOut ==
  [][\A w \in Workers : pc[w] = "release" /\ releases' # releases /\ pc'[w] # pc[w]
       => allowed[w]]_<<releases, pc>>
=============================================================================
