----------------------------- MODULE Evaluation -----------------------------
(***************************************************************************)
(* How the evidence about one item becomes notability levels: the sources  *)
(* are asked, their detectors run one after the other and yield signals,   *)
(* each signal raises the level of the detector's criterion, a detector or *)
(* source that fails makes its criteria UNKNOWN, and N2, N12, N3 and N are *)
(* derived.  A criterion has one detector, so detectors bear its name.     *)
(*                                                                         *)
(* `deserved` is the level each criterion deserves by the rules of         *)
(* src/server/static/detectors.md; the detectors never see it.             *)
(***************************************************************************)
EXTENDS Naturals, FiniteSetsExt

CONSTANTS
  MaxSignals,    \* bound: signals of one detector
  MaxMishaps     \* bound: failures in one evaluation

ASSUME EvaluationAssumption == MaxSignals \in Nat /\ MaxMishaps \in Nat

\* NotabilityLevel is an IntEnum: levels are compared as numbers.
NONE == 0
PARTIAL_WEAK == 1
PARTIAL_STRONG == 2
WEAK == 3
UNKNOWN == 4
STRONG == 5
Levels == NONE..STRONG

VARIABLES
  deserved,  \* the level each criterion deserves
  level,     \* EvaluationResult: the level found for it
  waiting,   \* detectors that have not run
  running,   \* the detector that runs, "" for none
  signals,   \* signals it has yielded
  lookups,   \* whether lookups of namespaces and properties succeed: they
             \* may fail, or find the tables empty
  mishaps

evaluationVars ==
  <<deserved, level, waiting, running, signals, lookups, mishaps>>

Content == {"N1", "N2a", "N2b"}
Structural == {"N3_inlinks", "N3_osm", "N3_sdc", "N3_wikisub"}
Direct == Content \union Structural

EvaluationTypeOK ==
  /\ deserved \in [Direct -> Levels] /\ level \in [Direct -> Levels]
  /\ waiting \subseteq Direct
  /\ running \in Direct \union {""}
  /\ signals \in 0..MaxSignals
  /\ lookups \in BOOLEAN
  /\ mishaps \in 0..MaxMishaps

EvaluationInit ==
  /\ deserved = [c \in Direct |-> NONE] /\ level = [c \in Direct |-> NONE]
  /\ waiting = Direct
  /\ running = ""
  /\ signals = 0
  /\ lookups \in BOOLEAN
  /\ mishaps = 0

-----------------------------------------------------------------------------
(* Derived criteria *)

SetLevel(l, c, found) == [l EXCEPT ![c] = found]

Raise(l, c, found) == [l EXCEPT ![c] = Max({@, found})]

\* What further evidence makes of the level a criterion deserves.
Deserving(l, c, right) ==
  [d \in Direct |-> IF d = c /\ right > l[c] THEN right ELSE l[d]]

Partial(half) == IF half \in {PARTIAL_STRONG, STRONG} THEN PARTIAL_STRONG
                 ELSE PARTIAL_WEAK

DeduceN2Alone(a, b) ==
  IF UNKNOWN \in {a, b} THEN UNKNOWN ELSE Min({a, b})

DeduceN2(a, b) ==
  IF UNKNOWN \in {a, b} THEN UNKNOWN
  ELSE CASE a = NONE /\ b = NONE -> NONE
         [] a = NONE /\ b # NONE -> Partial(b)
         [] a # NONE /\ b = NONE -> Partial(a)
         [] a # NONE /\ b # NONE -> Min({a, b})

N12(l) == Max({l["N1"], DeduceN2(l["N2a"], l["N2b"])})

N3(l) == Max({l[c] : c \in Structural})

N(l) == Max({N12(l), N3(l)})

\* content_evaluation_view, which the database computes with its own rules.
ViewN2(n1, a, b) ==
  IF UNKNOWN \in {n1, a, b} THEN UNKNOWN
  ELSE IF NONE \notin {a, b} THEN Min({a, b})
  ELSE CASE Max({a, b}) = NONE -> NONE
         [] Max({a, b}) = STRONG -> PARTIAL_STRONG
         [] OTHER -> PARTIAL_WEAK

ViewN12(l) == Max({l["N1"], ViewN2(l["N1"], l["N2a"], l["N2b"])})

-----------------------------------------------------------------------------
(* Evidence *)

\* `subpage` and `space` have one value for all that the rules treat alike:
\* "unfit" for INVALID_NAMESPACES, "test" for the other bad subpages.
Sitelink ==
  [project : {"wikipedia", "commons", "wikisource", "wikinews", "wikidata",
              "wiktionary", "undetermined", "unsupported"},
   space : {"main", "unfit", "portal", "template", "module", "category",
            "index", "comments", "citations", "property", "plain"},
   subpage : {"none", "doc", "test", "other"},
   script : BOOLEAN, redirect : BOOLEAN]

\* SitelinksDetector.test_sitelink: the first test that applies decides.
SitelinkLevel(s) ==
  IF s.project = "undetermined" THEN WEAK
  ELSE IF \/ s.project = "unsupported" \/ s.space = "unfit" \/ s.script
          \/ s.space = "portal" /\ s.subpage # "none"
    THEN NONE
  ELSE IF s.space = "template" /\ s.subpage = "none" THEN STRONG
  ELSE IF s.space = "template" /\ s.subpage = "other" THEN WEAK
  ELSE IF s.space = "template" THEN NONE
  ELSE IF s.space = "module" /\ s.subpage = "doc" THEN NONE
  ELSE IF s.space = "category" /\ s.project = "commons" THEN WEAK
  ELSE IF s.project = "wikisource" /\ s.space = "index" THEN NONE
  ELSE IF s.project = "wikisource" /\ s.space = "main" /\ s.subpage # "none"
    THEN WEAK
  ELSE IF \/ s.project = "wikinews" /\ s.space = "comments"
          \/ s.project = "wikidata" /\ s.space \in {"main", "property"}
          \/ s.project = "wiktionary" /\ s.space \in {"main", "citations"}
    THEN NONE
  ELSE IF s.redirect THEN WEAK
  ELSE STRONG

\* The rules of the documentation, as what keeps a sitelink from counting and
\* what makes it doubtful.  (A redirect badge on a template does not.)
Ineligible(s) ==
  \/ s.project = "unsupported"
  \/ s.space = "unfit" \/ s.script
  \/ s.space = "portal" /\ s.subpage # "none"
  \/ s.space = "template" /\ s.subpage \in {"doc", "test"}
  \/ s.space = "module" /\ s.subpage = "doc"
  \/ <<s.project, s.space>> \in
       {<<"wikisource", "index">>, <<"wikinews", "comments">>,
        <<"wikidata", "main">>, <<"wikidata", "property">>,
        <<"wiktionary", "main">>, <<"wiktionary", "citations">>}

Doubtful(s) ==
  \/ s.project = "commons" /\ s.space = "category"
  \/ s.space = "template" /\ s.subpage = "other"
  \/ s.project = "wikisource" /\ s.space = "main" /\ s.subpage # "none"
  \/ s.redirect /\ (s.space = "template" => s.subpage # "none")

SitelinkDeserves(s) ==
  CASE s.project = "undetermined" -> WEAK
    [] s.project # "undetermined" /\ Ineligible(s) -> NONE
    [] s.project # "undetermined" /\ ~Ineligible(s) ->
         IF Doubtful(s) THEN WEAK ELSE STRONG

\* Without the prefixes of its site a page of another namespace is "other".
Unprefixed(s) == [s EXCEPT !.space = IF @ = "main" THEN "main" ELSE "plain"]

\* What may come of a sitelink, beside what it deserves.
Judgements == {<<SitelinkLevel(s), SitelinkDeserves(s)>> : s \in Sitelink}

\* The snapshot has nothing on the site, or the lookup fails: the page is
\* judged without its namespace, or counts for nothing.
Misjudgements ==
  UNION {{NONE, SitelinkLevel(s), SitelinkLevel(Unprefixed(s))}
             \X {SitelinkDeserves(s)} :
           s \in Sitelink}

Statements == {"identifier", "account", "authority", "strong", "weak", "other"}

\* IdentifiersDetector: `known` is whether the property sets were there.
IdentifierLevel(statement, known) ==
  CASE statement \in {"identifier", "strong"} -> STRONG
    [] statement = "account" -> IF known THEN WEAK ELSE STRONG
    [] statement = "authority" -> IF known THEN WEAK ELSE NONE
    [] statement = "weak" -> WEAK
    [] statement = "other" -> NONE

\* SourcesDetector: the references of a statement and its own property.
ReferenceLevel(statement, known) ==
  CASE statement = "strong" -> STRONG
    [] statement = "identifier" -> IF known THEN STRONG ELSE NONE
    [] statement = "weak" -> WEAK
    [] statement \in {"account", "authority", "other"} -> NONE

UsageLevel(c) == IF c = "N3_sdc" THEN STRONG ELSE WEAK

-----------------------------------------------------------------------------
(* One evaluation *)

\* EVALUATION_SOURCES, by their criteria.  A source has a set of detectors.
Sources == <<Content, {"N3_inlinks"}, {"N3_osm"}, {"N3_sdc"}, {"N3_wikisub"}>>

NextDetectors ==
  IF waiting = {} THEN {}
  ELSE waiting \intersect
         Sources[Min({i \in DOMAIN Sources : Sources[i] \intersect waiting # {}})]

\* Evidence that was not looked at may have been anything.
Unseen == {NONE, WEAK, STRONG}

StartDetector(c) ==
  /\ running = "" /\ c \in NextDetectors
  /\ running' = c
  /\ waiting' = waiting \ {c}
  /\ UNCHANGED <<deserved, level, signals, lookups, mishaps>>

Signal(c, found, right) ==
  /\ running = c /\ signals < MaxSignals
  /\ signals' = signals + 1
  /\ level' = Raise(level, c, found)
  /\ deserved' = Deserving(deserved, c, right)
  /\ UNCHANGED <<waiting, running>>

JudgeSitelink ==
  /\ \E j \in IF lookups THEN Judgements ELSE Misjudgements :
       Signal("N1", j[1], j[2])
  /\ UNCHANGED <<lookups, mishaps>>

\* P373 acts like a sitelink.
CommonsCategory == Signal("N1", WEAK, WEAK) /\ UNCHANGED <<lookups, mishaps>>

JudgeIdentifier(statement) ==
  /\ Signal("N2a", IdentifierLevel(statement, lookups),
            IdentifierLevel(statement, TRUE))
  /\ UNCHANGED <<lookups, mishaps>>

JudgeReference(statement) ==
  /\ Signal("N2b", ReferenceLevel(statement, lookups),
            ReferenceLevel(statement, TRUE))
  /\ UNCHANGED <<lookups, mishaps>>

\* The stored N12 of an item that links here, UNKNOWN without a row, or
\* UNKNOWN because the list of links was cut off.
JudgeInlink(stored) ==
  Signal("N3_inlinks", stored, stored) /\ UNCHANGED <<lookups, mishaps>>

JudgeUsage(c) ==
  /\ Signal(c, UsageLevel(c), UsageLevel(c))
  /\ UNCHANGED <<lookups, mishaps>>

FinishDetector ==
  /\ running # ""
  /\ running' = "" /\ signals' = 0
  /\ UNCHANGED <<deserved, level, waiting, lookups, mishaps>>

FailWithoutError(l, c) == l

\* add_error: UNKNOWN, unless the criterion is STRONG already.
AddError(l, c) == Raise(l, c, UNKNOWN)

FailDetector ==
  /\ running # "" /\ mishaps < MaxMishaps
  /\ mishaps' = mishaps + 1
  /\ level' = AddError(level, running)
  /\ \E right \in Unseen : deserved' = Deserving(deserved, running, right)
  /\ running' = "" /\ signals' = 0
  /\ UNCHANGED <<waiting, lookups>>

\* A source that times out or fails before any of its detectors runs.
FailSource(c) ==
  /\ running = "" /\ c \in NextDetectors /\ c \notin Content
  /\ mishaps < MaxMishaps /\ mishaps' = mishaps + 1
  /\ level' = AddError(level, c)
  /\ \E right \in Unseen : deserved' = Deserving(deserved, c, right)
  /\ waiting' = waiting \ {c}
  /\ UNCHANGED <<running, signals, lookups>>

FailContent ==
  /\ running = "" /\ Content \subseteq waiting
  /\ mishaps < MaxMishaps /\ mishaps' = mishaps + 1
  /\ level' = AddError(AddError(AddError(level, "N1"), "N2a"), "N2b")
  /\ \E right \in [Content -> Unseen] :
       deserved' = [c \in Direct |-> IF c \in Content THEN right[c]
                                     ELSE deserved[c]]
  /\ waiting' = waiting \ Content
  /\ UNCHANGED <<running, signals, lookups>>

EvaluationNext ==
  \/ \E c \in Direct : StartDetector(c) \/ FailSource(c)
  \/ \E t \in Statements : JudgeIdentifier(t) \/ JudgeReference(t)
  \/ \E stored \in Levels : JudgeInlink(stored)
  \/ \E c \in {"N3_osm", "N3_sdc", "N3_wikisub"} : JudgeUsage(c)
  \/ JudgeSitelink \/ CommonsCategory \/ FinishDetector \/ FailDetector \/ FailContent

-----------------------------------------------------------------------------
(* What is stored and read again *)

\* The tables of external usage are read as they are.
UsageRead(c) == IF deserved[c] = NONE THEN NONE ELSE UsageLevel(c)

\* get_many and the report's snapshot, when the rows of `stored` exist: content
\* with an UNKNOWN level is not stored, and what is missing reads as UNKNOWN.
LevelsRead(stored) ==
  [c \in Direct |->
     IF c \notin Content \union {"N3_inlinks"} THEN UsageRead(c)
     ELSE IF c \in stored THEN level[c] ELSE UNKNOWN]

Storable ==
  {S \in {{}, Content, {"N3_inlinks"}, Content \union {"N3_inlinks"}} :
     \A c \in S \intersect Content : level[c] # UNKNOWN}

-----------------------------------------------------------------------------
(* Properties *)

Agree(found, right) ==
  \/ found = right
  \/ found = UNKNOWN /\ mishaps > 0

\* A finished report tells what the evidence deserves by the documented
\* rules, in whatever order the detectors ran; and when detectors or sources
\* failed, what it still tells (anything but UNKNOWN) is what it would have
\* told without the failure.  Only failed lookups may distort N1 and N2.
ReportSound ==
  waiting = {} /\ running = "" =>
    /\ \A c \in Structural : Agree(level[c], deserved[c])
    /\ Agree(N3(level), N3(deserved))
    /\ lookups => /\ \A c \in Content : Agree(level[c], deserved[c])
                  /\ Agree(N12(level), N12(deserved))
                  /\ Agree(N(level), N(deserved))

\* Those who read the evaluation again are told what it found or UNKNOWN: of
\* N12, whether they deduce it in code or have the view of the database do so,
\* and of N and N3, which come from the rows there are and the usage tables.
ReadsAgree ==
  waiting = {} /\ running = "" =>
    \A stored \in Storable :
      LET read == LevelsRead(stored) IN
      /\ N12(read) \in {N12(level), UNKNOWN}
      /\ Content \subseteq stored =>
           /\ N12(read) = N12(level)
           /\ ViewN2(read["N1"], read["N2a"], read["N2b"])
                = DeduceN2(level["N2a"], level["N2b"])
           /\ ViewN12(read) = N12(level)
      /\ mishaps = 0 => N3(read) \in {N3(level), UNKNOWN} /\ N(read) \in {N(level), UNKNOWN}

EvaluationSpec == EvaluationInit /\ [][EvaluationNext]_evaluationVars
=============================================================================
