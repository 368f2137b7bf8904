---------------------------- MODULE ApiAssessment ----------------------------
(***************************************************************************)
(* The api commands of the Red Night command line (red_cli.py): inspect    *)
(* and probe of an API description, and the two GraphQL ones.              *)
(*                                                                         *)
(* probe plans its requests from the description (select_api_operations),  *)
(* then asks the request policy again before each of them                  *)
(* (authorize_api_request, execute_api_request) and stops without a report *)
(* when it refuses.  A request may fail, which is recorded, or meet a      *)
(* malformed answer: that one raises an http.client.HTTPException, which   *)
(* nothing catches, and the command ends there.  Reports are files,        *)
(* written one after the other once the last request is answered.          *)
(*                                                                         *)
(* An operation of the description is its selector, method, whether it has *)
(* required values or a templated path, and the URL it resolves to.        *)
(***************************************************************************)
EXTENDS Naturals, FiniteSetsExt, SequencesExt

CONSTANTS
    Described,          \* the operations of the description
    Selectors,          \* selections the operator may ask for: sequences of selectors
    ApiOrigin,          \* the origin of --base-url
    MaxRequests         \* --max-requests

ASSUME ApiAssumption ==
    /\ MaxRequests \in Nat \ {0}
    /\ \A selectors \in Selectors : selectors \in Seq(Range(selectors))

VARIABLES
    apiRun,             \* where the command is, and the requests left to send
    apiSent,            \* requests that went out
    apiFiles            \* the reports on disk

apiVars == <<apiRun, apiSent, apiFiles>>

ApiInit ==
    /\ apiRun = [at |-> "start", plan |-> <<>>, used |-> 0, records |-> <<>>]
    /\ apiSent = <<>>
    /\ apiFiles = {}

Matches(selector) == {op \in Described : op.selector = selector}

Safe(op) ==
    /\ op.method \in {"GET", "HEAD"}
    /\ ~op.needsValues
    /\ op.origin = ApiOrigin

\* select_api_operations: one safe operation for each selector, each method and
\* URL once; any other selector ends the command.
Selectable(selectors) ==
    /\ selectors # <<>>
    /\ \A i \in DOMAIN selectors :
        /\ Cardinality(Matches(selectors[i])) = 1
        /\ \A op \in Matches(selectors[i]) : Safe(op)

Request(op) == [method |-> op.method, url |-> op.url, origin |-> op.origin]

Selected(selectors) ==
    LET plan[n \in 0 .. Len(selectors)] ==
            IF n = 0 THEN <<>>
            ELSE LET request == Request(CHOOSE op \in Matches(selectors[n]) : TRUE)
                 IN  IF request \in Range(plan[n - 1]) THEN plan[n - 1]
                     ELSE Append(plan[n - 1], request)
    IN  plan[Len(selectors)]

ApiEnds == [apiRun EXCEPT !.at = "ended", !.plan = <<>>]

\* Mutant: the plan is not compared with the request ceiling.
PlanProbeUnbounded(selectors) ==
    /\ apiRun.at = "start"
    /\ apiRun' = IF Selectable(selectors)
                 THEN [apiRun EXCEPT !.at = "probe", !.plan = Selected(selectors)]
                 ELSE ApiEnds
    /\ UNCHANGED <<apiSent, apiFiles>>

PlanProbe(selectors) ==
    /\ apiRun.at = "start"
    /\ apiRun' = IF Selectable(selectors) /\ Len(Selected(selectors)) <= MaxRequests
                 THEN [apiRun EXCEPT !.at = "probe", !.plan = Selected(selectors)]
                 ELSE ApiEnds
    /\ UNCHANGED <<apiSent, apiFiles>>

\* authorize_api_request
RequestAllowed(request) ==
    /\ apiRun.used < MaxRequests
    /\ request.origin = ApiOrigin
    /\ request.method \in {"GET", "HEAD"}

\* What becomes of a request: an answer, an error execute_api_request catches
\* (HTTPError, URLError, OSError, ValueError), or one it does not.
Outcomes == {"success", "failure", "raised"}

Recorded(success) ==
    [apiRun EXCEPT !.plan = Tail(@), !.used = @ + 1,
                   !.records = Append(@, [success |-> success, used |-> apiRun.used + 1])]

\* authorize_api_request and execute_api_request: the slot is reserved before the
\* request goes out; an exception takes the reservation and the records with it.
SendRequest(outcome) ==
    LET request == Head(apiRun.plan)
    IN  /\ apiRun.at = "probe" /\ apiRun.plan # <<>>
        /\ IF RequestAllowed(request)
           THEN /\ apiSent' = Append(apiSent, request)
                /\ apiRun' = IF outcome = "raised" THEN [ApiEnds EXCEPT !.at = "raised"]
                             ELSE Recorded(outcome = "success")
           ELSE /\ apiRun' = [apiRun EXCEPT !.at = "rejected"]
                /\ UNCHANGED apiSent
        /\ UNCHANGED apiFiles

\* ApiValidationReport: what the summary says.
ProbesAttempted(records) == Max({records[i].used : i \in DOMAIN records} \cup {0})
Successful(records) == Cardinality({i \in DOMAIN records : records[i].success})

\* The inventory is saved first; either write may fail.
SaveInventory ==
    /\ apiRun.at = "probe" /\ apiRun.plan = <<>>
    /\ \/ /\ apiFiles' = apiFiles \cup {[kind |-> "inventory", attempted |-> 0, successful |-> 0]}
          /\ apiRun' = [apiRun EXCEPT !.at = "validation"]
       \/ apiRun' = ApiEnds /\ UNCHANGED apiFiles
    /\ UNCHANGED apiSent

SaveValidation ==
    /\ apiRun.at = "validation"
    /\ apiFiles' \in {apiFiles, apiFiles \cup
            {[kind |-> "validation", attempted |-> ProbesAttempted(apiRun.records),
              successful |-> Successful(apiRun.records)]}}
    /\ apiRun' = ApiEnds
    /\ UNCHANGED apiSent

\* inspect and graphql-inspect read a file and save one report.
InspectApi ==
    /\ apiRun.at = "start"
    /\ apiFiles' \in {apiFiles, {[kind |-> "inventory", attempted |-> 0, successful |-> 0]}}
    /\ apiRun' = ApiEnds
    /\ UNCHANGED apiSent

\* graphql-introspect: one fixed request; a failed one leaves no report.
IntrospectGraphQL ==
    /\ apiRun.at = "start"
    /\ apiSent' = <<[method |-> "POST", url |-> "graphql", origin |-> ApiOrigin]>>
    /\ apiFiles' \in {apiFiles, {[kind |-> "schema", attempted |-> 1, successful |-> 1]}}
    /\ apiRun' = ApiEnds

ApiNext ==
    \/ \E selectors \in Selectors : PlanProbe(selectors)
    \/ \E outcome \in Outcomes : SendRequest(outcome)
    \/ SaveInventory
    \/ SaveValidation
    \/ InspectApi
    \/ IntrospectGraphQL

ApiSpec == ApiInit /\ [][ApiNext]_apiVars

-----------------------------------------------------------------------------
(* A probe that has sent a request is carried out, unless an answer raises *)
(* what nobody catches: the policy asked before each request never refuses *)
(* what the planner let through (its refusal would end the command with    *)
(* requests sent and no report).  On the way every request sent is in the  *)
(* records; after a raised answer the last one is in none, and no report   *)
(* of the others is left either.  A validation report counts exactly the   *)
(* requests that went out, as many successes as were recorded.             *)
ProbesAreCarriedOut ==
    /\ apiRun.at # "rejected"
    /\ apiRun.at \in {"probe", "validation"} => Len(apiSent) = Len(apiRun.records)
    /\ apiRun.at = "raised" => /\ Len(apiSent) = Len(apiRun.records) + 1
                               /\ apiFiles = {}
    /\ \A file \in apiFiles : file.kind = "validation" =>
        /\ file.attempted = Len(apiSent)
        /\ file.successful = Successful(apiRun.records)
=============================================================================
