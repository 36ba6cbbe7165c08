----------------------------- MODULE HTTPCanary -----------------------------
(***************************************************************************)
(* The HTTP canary (internal/agent/canary/http/http.go).                   *)
(*                                                                         *)
(* A site redirects a number of times and then answers.  An answer is its  *)
(* status and whether its body contains the configured text and matches    *)
(* the configured expression.  A configuration says whether it has a text  *)
(* and whether its expression is there and compiles.  Timings, headers and *)
(* certificates are left out.                                              *)
(*                                                                         *)
(* httpValidateAnyRegex, contentMatchedEither and ExceedsFromLimitOn are    *)
(* regressions of the definitions after them, which nothing uses.           *)
(***************************************************************************)
EXTENDS Integers

Methods == {"", "GET", "POST", "HEAD", "PUT", "DELETE", "PATCH", "OPTIONS"}

httpValidateAnyRegex(cfg) ==
    /\ cfg.method \in Methods
    /\ cfg.expectedStatus \in 0 .. 999
    /\ cfg.maxRedirects >= 0

httpValidate(cfg) ==
    /\ cfg.method \in Methods
    /\ cfg.expectedStatus \in 0 .. 999
    /\ cfg.regex # "invalid"
    /\ cfg.maxRedirects >= 0

\* Execute's defaults: what is zero or missing is not what it says.
withDefaults(cfg) ==
    [cfg EXCEPT !.method = IF @ = "" THEN "GET" ELSE @,
                !.followRedirects = (@ # "no"),
                !.expectedStatus = IF @ = 0 THEN 200 ELSE @,
                !.maxRedirects = IF @ = 0 THEN 10 ELSE @]

contentMatchedEither(cfg, answer) ==
    (cfg.contentMatch => answer.contains) \/ (cfg.regex = "valid" => answer.matches)

\* The text and, if that is there, the expression.  A HEAD has no body to hold it.
contentMatched(cfg, answer) ==
    /\ cfg.contentMatch => cfg.method # "HEAD" /\ answer.contains
    /\ cfg.regex # "none" => cfg.regex = "valid" /\ answer.matches

ExceedsFromLimitOn(cfg, redirectCount) == redirectCount >= cfg.maxRedirects

\* CheckRedirect, once it has counted this redirect.
Exceeds(cfg, redirectCount) == redirectCount > cfg.maxRedirects

\* doRequest: CheckRedirect runs before each redirect is followed.  The request,
\* or the reading of the body, fails if the test's context ends first.
doRequest(site, cfg) ==
    LET stops == ~cfg.followRedirects /\ site.redirects > 0
        last == IF stops THEN site.redirect ELSE site.answer
        exceeded == ~stops /\ \E n \in 1 .. site.redirects : Exceeds(cfg, n)
    IN  [failed |-> site.fails \/ exceeded,
         statusCode |-> last.status,
         redirectCount |-> IF stops THEN 1 ELSE site.redirects,
         contentMatched |-> contentMatched(cfg, last)]

\* Execute: a failed request has no metrics; the status comes before the content.
httpExecute(site, config) ==
    LET cfg == withDefaults(config)
        metrics == doRequest(site, cfg)
    IN  [metrics |-> metrics,
         success |-> /\ ~metrics.failed
                     /\ metrics.statusCode = cfg.expectedStatus
                     /\ metrics.contentMatched]
=============================================================================
