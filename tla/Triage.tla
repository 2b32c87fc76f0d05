------------------------------- MODULE Triage -------------------------------
(***************************************************************************)
(* ai-security-agent: POST /triage explains a rule, by a table or by the   *)
(* answer of a language model, and may raise its severity to the caller's  *)
(* hint; POST /adversarial/score probes the fraud model slice by slice and *)
(* turns the evasion rate and the drift of the amounts into a verdict.     *)
(* Rates and drift are in thousandths.                                     *)
(***************************************************************************)
EXTENDS Integers, SoarPlaybooks

CONSTANTS RuleIds,      \* rule ids in requests
          Hints,        \* severity hints, lower-cased
          Replies,      \* the language model's severity and playbook
          Amounts,      \* base_features[0], in rupees
          Drifts,       \* values of population_stability_index
          NSlices,      \* n_slices: 50
          NoHint

ASSUME SlicesAssumption == NSlices \in Nat \ {0}
ASSUME DriftAssumption  == Drifts \subseteq Nat /\ Amounts \subseteq Nat
ASSUME ReplyAssumption  == Replies \subseteq [severity : STRING, playbook : STRING]

order == <<"info", "low", "medium", "high", "critical">>
Severities == {order[i] : i \in 1..5}
Index(s) == (CHOOSE i \in 1..5 : order[i] = s) - 1

\* Fault: containers are cordoned before they are quarantined.
NarrativesCordon(rule) ==
    CASE rule = "container-escape" -> [severity |-> "critical", playbook |-> "PB-004"]
      [] OTHER -> [severity |-> "critical", playbook |-> DISPATCH(rule)[1]]

Narratives(rule) ==
    CASE rule = "cred-stuffing"     -> [severity |-> "high", playbook |-> "PB-001"]
      [] rule = "jwt-anomaly"       -> [severity |-> "critical", playbook |-> "PB-002"]
      [] rule = "memory-corruption" -> [severity |-> "critical", playbook |-> "PB-007"]
      [] rule = "container-escape"  -> [severity |-> "critical", playbook |-> "PB-007"]
      [] rule = "dns-exfiltration"  -> [severity |-> "high", playbook |-> "PB-008"]
      [] rule = "rbac-privilege-escalation" -> [severity |-> "critical", playbook |-> "PB-005"]
      [] rule = "fraud-ml"          -> [severity |-> "high", playbook |-> "PB-003"]
      [] OTHER                      -> [severity |-> "medium", playbook |-> "PB-000-manual"]

VARIABLES
    llm,        \* the backend is the language model; otherwise the table
    stub,       \* the fraud model's file is missing: _StubModel
    probing,    \* a request is in /adversarial/score
    req,        \* the request that is being served or was served last
    tried, evaded,
    answer      \* the last answer: a status and what it carries

triageVars == <<llm, stub, probing, req, tried, evaded, answer>>

NoAnswer == [status |-> 0]
NoRequest == [kind |-> "none"]

TriageInit ==
    /\ llm \in BOOLEAN /\ stub \in BOOLEAN
    /\ probing = FALSE /\ req = NoRequest /\ answer = NoAnswer
    /\ tried = 0 /\ evaded = 0

-----------------------------------------------------------------------------
(* /triage *)

\* The table's row, the model's JSON, or the defaults when it is not JSON.
Explanations(rule) ==
    IF llm THEN Replies \cup {[severity |-> "medium", playbook |-> "PB-000-manual"]}
           ELSE {Narratives(rule)}

\* Fault: the hint replaces the severity.
BumpAlways(severity, hint) == IF hint = NoHint THEN severity ELSE hint

Bump(severity, hint) ==
    IF hint # NoHint /\ Index(hint) > Index(severity) THEN hint ELSE severity

\* Fault: scores count from one.
ScoreFromOne(s) == Index(s) + 1

Score(s) == Index(s)

\* list.index raises for a word that is no severity: 500, as when the model's
\* API fails or its JSON is no object.
TriageRequest(rule, hint) ==
    /\ ~ probing
    /\ req' = [kind |-> "triage", rule |-> rule, hint |-> hint]
    /\ \E e \in Explanations(rule) :
          IF e.severity \in Severities /\ hint \in Severities \cup {NoHint}
          THEN answer' = [status |-> 200, given |-> e.severity, playbook |-> e.playbook,
                          severity |-> Bump(e.severity, hint),
                          triage_score |-> Score(Bump(e.severity, hint))]
          ELSE answer' = [status |-> 500]
    /\ UNCHANGED <<llm, stub, probing, tried, evaded>>

TriageFails(rule, hint) ==
    /\ ~ probing /\ llm
    /\ req' = [kind |-> "triage", rule |-> rule, hint |-> hint]
    /\ answer' = [status |-> 500]
    /\ UNCHANGED <<llm, stub, probing, tried, evaded>>

-----------------------------------------------------------------------------
(* /adversarial/score *)

\* No features are a 400, an empty list of amounts has no minimum: 500.
ScoreRefused(amount) ==
    /\ ~ probing
    /\ req' = [kind |-> "score", amount |-> amount, drift |-> 0]
    /\ \E s \in {400, 500} : answer' = [status |-> s]
    /\ UNCHANGED <<llm, stub, probing, tried, evaded>>

ScoreRequest(amount, drift) ==
    /\ ~ probing
    /\ probing' = TRUE /\ req' = [kind |-> "score", amount |-> amount, drift |-> drift]
    /\ tried' = 0 /\ evaded' = 0 /\ answer' = NoAnswer
    /\ UNCHANGED <<llm, stub>>

\* _StubModel.predict of the amount divided by the divisor
Flags(amount, divisor) == amount > 10000 * divisor

\* salami_probe: a divisor of at least 2 (its fraction is left out); a trained
\* model also sees the noise and may say anything.
Slice ==
    /\ probing /\ tried < NSlices
    /\ tried' = tried + 1
    /\ \E divisor \in 2..8, flagged \in BOOLEAN :
          /\ stub => flagged = Flags(req.amount, divisor)
          /\ evaded' = IF flagged THEN evaded ELSE evaded + 1
    /\ UNCHANGED <<llm, stub, probing, req, answer>>

\* Fault: "watch" takes both signs.
VerdictBoth(escaped, drift) ==
    IF 10 * escaped > 4 * NSlices \/ drift > 250 THEN "retrain-now"
    ELSE IF 10 * escaped > 2 * NSlices /\ drift > 150 THEN "watch"
    ELSE "robust"

\* The first test that applies.
Verdict(escaped, drift) ==
    IF 10 * escaped > 4 * NSlices \/ drift > 250 THEN "retrain-now"
    ELSE IF 10 * escaped > 2 * NSlices \/ drift > 150 THEN "watch"
    ELSE "robust"

ReportVerdict ==
    /\ probing /\ tried = NSlices
    /\ answer' = [status |-> 200, psi_alarm |-> req.drift > 200,
                  verdict |-> Verdict(evaded, req.drift)]
    /\ probing' = FALSE
    /\ UNCHANGED <<llm, stub, req, tried, evaded>>

TriageNext ==
    \/ \E rule \in RuleIds, hint \in Hints \cup {NoHint} :
          TriageRequest(rule, hint) \/ TriageFails(rule, hint)
    \/ \E amount \in Amounts :
          ScoreRefused(amount) \/ \E drift \in Drifts : ScoreRequest(amount, drift)
    \/ Slice \/ ReportVerdict

TriageSpec == TriageInit /\ [][TriageNext]_triageVars

-----------------------------------------------------------------------------
(* Properties *)

Triaged == req.kind = "triage" /\ answer.status = 200
Scored  == req.kind = "score" /\ answer.status = 200

TriageTypeOK ==
    /\ llm \in BOOLEAN /\ stub \in BOOLEAN
    /\ probing \in BOOLEAN
    /\ tried \in 0..NSlices /\ evaded \in 0..tried
    /\ answer.status \in {0, 200, 400, 500}
    /\ Triaged => answer.severity \in Severities /\ answer.triage_score \in 0..4
    /\ Scored => answer.verdict \in {"robust", "watch", "retrain-now"}

\* Neither the caller's hint nor a language model's wording lowers a severity:
\* the answer is at least the backend's and at least the hint, and the score
\* that consumers sort by agrees with it.
NeverLowered ==
    Triaged =>
        /\ answer.triage_score = Index(answer.severity)
        /\ Index(answer.given) <= answer.triage_score
        /\ req.hint # NoHint => Index(req.hint) <= answer.triage_score

\* The table's advice and the SOAR's own table agree: the suggested playbook is
\* the one SOAR runs first for the rule, and advice to act by hand means that
\* SOAR does nothing.
SuggestionRuns ==
    Triaged /\ ~ llm =>
        IF DISPATCH(req.rule) = <<>> THEN answer.playbook = "PB-000-manual"
        ELSE answer.playbook = DISPATCH(req.rule)[1]

\* Two tests look at one drift, and the probe's divisors are random: an alarm is
\* never accompanied by "robust", and against the stub a transfer of at most
\* twice its limit, which evades in every slice, is "retrain-now" whatever is drawn.
DangerIsReported ==
    Scored =>
        /\ answer.psi_alarm => answer.verdict # "robust"
        /\ stub /\ req.amount <= 20000 => answer.verdict = "retrain-now"
=============================================================================
