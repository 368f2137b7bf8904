---------------------------- MODULE WebAssessment ----------------------------
(***************************************************************************)
(* The crawl command (red_cli.py, "crawl") with every engine turned on. It *)
(* calls them in turn on one origin: the crawler (web_crawl.py), the safe- *)
(* active OPTIONS probes (web_active_assessment.py), the CORS check under  *)
(* its DAST budgets (dast_policy.py, dast_http.py, dast_cors.py), one      *)
(* browser navigation under route interception (browser_policy.py,         *)
(* browser_worker.py, browser_playwright.py) and the requested workflow    *)
(* navigations (web_workflow.py, web_workflow_execution.py).               *)
(*                                                                         *)
(* A URL is a number, which is also its place in sorted order; 0 stands    *)
(* for every URL of another origin.  What a URL answers is given by the    *)
(* site, except that any request may fail.  A malformed answer raises an   *)
(* http.client.HTTPException: the crawler and the browser catch it like    *)
(* any other failure, the OPTIONS probes and the CORS requests do not, and *)
(* the command ends with nothing saved.                                    *)
(***************************************************************************)
EXTENDS Naturals, SequencesExt, FiniteSetsExt

CONSTANTS
    SiteLinks,          \* SiteLinks[u]: the links on page u; 0 is another origin
    SiteRedirect,       \* SiteRedirect[u]: where u redirects, u itself if it does not
    MaxPages,           \* --max-pages
    MaxProbes,          \* --max-web-assessment-requests
    CorsTargets,        \* --dast-cors-max-targets
    MaxDast,            \* the lesser of the total and the family request budget
    MaxBrowserRequests, MaxBrowserPages,
    MaxWorkflow,        \* --workflow-max-actions
    WorkflowUrls,       \* --workflow-get, in order
    MaxRefused          \* bound: browser requests refused

Urls == DOMAIN SiteLinks

ASSUME WebAssumption ==
    /\ Urls \subseteq Nat \ {0} /\ 1 \in Urls
    /\ \A u \in Urls : /\ SiteLinks[u] \subseteq Urls \cup {0} /\ IsFiniteSet(SiteLinks[u])
                       /\ SiteRedirect[u] \in Urls \cup {0}
    /\ {MaxPages, MaxProbes, CorsTargets, MaxDast, MaxBrowserRequests, MaxBrowserPages,
        MaxWorkflow} \subseteq Nat \ {0}
    /\ 2 * CorsTargets <= MaxDast
    /\ WorkflowUrls \in Seq(Urls)

VARIABLES
    webStage,
    pending, queued,    \* the crawler's deque and its set
    pages,              \* CrawlPages: [url, links, ok]
    probed,             \* URLs of safe-active requests attempted
    dastUsed,           \* DastBudgetState.total_used
    corsPairs,          \* history: requests sent, per CORS target begun
    browser,            \* BrowserWorkerState and what became of the requests
    workflowUsed,       \* WorkflowState.actions_used
    workflowSent,       \* workflow navigations executed or denied, in order
    webFiles            \* result files saved

webVars == <<webStage, pending, queued, pages, probed, dastUsed, corsPairs, browser,
             workflowUsed, workflowSent, webFiles>>

WebInit ==
    /\ webStage = "crawl"
    /\ pending = <<1>> /\ queued = {1}
    /\ pages = <<>>
    /\ probed = <<>>
    /\ dastUsed = 0 /\ corsPairs = <<>>
    /\ browser = [used |-> 0, documents |-> 0, open |-> 0, refused |-> 0]
    /\ workflowUsed = 0 /\ workflowSent = <<>>
    /\ webFiles = {}

-----------------------------------------------------------------------------
\* _fetch_page and discover_html_content: an answer from another origin is an
\* error; links of other origins are dropped.
FetchedPage(u, ok) ==
    [url |-> u, ok |-> ok /\ SiteRedirect[u] # 0,
     links |-> IF ok /\ SiteRedirect[u] # 0 THEN SiteLinks[SiteRedirect[u]] \ {0} ELSE {}]

InOrder(urls) ==
    LET places == 1 .. Cardinality(urls)
    IN  CHOOSE s \in [places -> urls] : \A i, j \in places : i < j => s[i] < s[j]

\* The links of a page that join the queue, in sorted order, while it has room.
NewLinks(page) ==
    LET fresh == InOrder(page.links \ queued)
    IN  SubSeq(fresh, 1, Min({Len(fresh), MaxPages - Cardinality(queued)}))

\* One turn of crawl_site's loop.
CrawlPage(ok) ==
    /\ webStage = "crawl"
    /\ pending # <<>> /\ Len(pages) < MaxPages
    /\ LET page == FetchedPage(Head(pending), ok)
       IN  /\ pages' = Append(pages, page)
           /\ pending' = Tail(pending) \o NewLinks(page)
           /\ queued' = queued \cup Range(NewLinks(page))
    /\ UNCHANGED <<webStage, probed, dastUsed, corsPairs, browser, workflowUsed,
                   workflowSent, webFiles>>

CrawlEnds ==
    /\ webStage = "crawl"
    /\ pending = <<>> \/ Len(pages) >= MaxPages
    /\ webStage' = "probe"
    /\ UNCHANGED <<pending, queued, pages, probed, dastUsed, corsPairs, browser,
                   workflowUsed, workflowSent, webFiles>>

-----------------------------------------------------------------------------
GoodPages ==
    LET good[n \in 0 .. Len(pages)] ==
            IF n = 0 THEN <<>>
            ELSE IF pages[n].ok THEN Append(good[n - 1], pages[n].url) ELSE good[n - 1]
    IN  good[Len(pages)]

\* The first n different URLs of the pages without an error.
Candidates(n) == SubSeq(GoodPages, 1, Min({Len(GoodPages), n}))

\* assess_web_pages_safe_active: one OPTIONS each.  A failed one is an error of the
\* result; an answer that raises what is not caught ends the command.
Probe ==
    /\ webStage = "probe"
    /\ IF Len(probed) < Len(Candidates(MaxProbes))
       THEN /\ probed' = Append(probed, Candidates(MaxProbes)[Len(probed) + 1])
            /\ webStage' \in {"probe", "raised"}
       ELSE /\ webStage' = "dast"
            /\ UNCHANGED probed
    /\ UNCHANGED <<pending, queued, pages, dastUsed, corsPairs, browser, workflowUsed,
                   workflowSent, webFiles>>

\* execute_dast_http_request: authorize_dast_request and reserve_dast_request
\* come before the request, so a failed one stays charged.
DastAllowed == dastUsed < MaxDast

\* A CORS target has had its baseline and not its probe.
HalfPair == corsPairs # <<>> /\ Last(corsPairs) = 1

\* assess_credentialed_cors, a target at a time: first the baseline.  It is charged
\* whether it is answered or fails, and also when its answer raises what neither
\* the request nor the command catches.  A refusal ends the check.
CorsBaseline ==
    /\ webStage = "dast" /\ ~HalfPair
    /\ IF Len(corsPairs) < Len(Candidates(CorsTargets)) /\ DastAllowed
       THEN /\ dastUsed' = dastUsed + 1
            /\ corsPairs' = Append(corsPairs, 1)
            /\ webStage' \in {"dast", "raised"}
       ELSE /\ webStage' = "browse"
            /\ UNCHANGED <<dastUsed, corsPairs>>
    /\ UNCHANGED <<pending, queued, pages, probed, browser, workflowUsed, workflowSent, webFiles>>

\* Then the probe, with the synthetic origin, whatever the baseline gave.
CorsProbe ==
    /\ webStage = "dast" /\ HalfPair
    /\ IF DastAllowed
       THEN /\ dastUsed' = dastUsed + 1
            /\ corsPairs' = [corsPairs EXCEPT ![Len(corsPairs)] = 2]
            /\ webStage' \in {"dast", "raised"}
       ELSE /\ webStage' = "browse"
            /\ UNCHANGED <<dastUsed, corsPairs>>
    /\ UNCHANGED <<pending, queued, pages, probed, browser, workflowUsed, workflowSent, webFiles>>

-----------------------------------------------------------------------------
\* authorize_browser_request and authorize_new_document, on an URL of the origin.
BrowserAllowed(document) ==
    /\ browser.used < MaxBrowserRequests
    /\ document => browser.documents < MaxBrowserPages

\* Mutant: the budget is taken when the answer arrives.
InterceptRequestLate(document) ==
    /\ webStage = "browse"
    /\ BrowserAllowed(document)
    /\ browser.open < MaxBrowserRequests + 1
    /\ browser' = [browser EXCEPT !.open = @ + 1]
    /\ UNCHANGED <<webStage, pending, queued, pages, probed, dastUsed, corsPairs,
                   workflowUsed, workflowSent, webFiles>>

\* handle_route up to its fetch: the request is decided on, and the budget taken,
\* before it is sent; other routes are handled while the fetch waits.
InterceptRequest(document) ==
    /\ webStage = "browse"
    /\ \/ /\ BrowserAllowed(document)
          /\ browser' = [browser EXCEPT !.used = @ + 1, !.open = @ + 1,
                                        !.documents = IF document THEN @ + 1 ELSE @]
       \/ /\ ~BrowserAllowed(document)
          /\ browser.refused < MaxRefused
          /\ browser' = [browser EXCEPT !.refused = @ + 1]
    /\ UNCHANGED <<webStage, pending, queued, pages, probed, dastUsed, corsPairs,
                   workflowUsed, workflowSent, webFiles>>

\* The answer: fulfilled, or aborted when it redirects or is too large.
RouteAnswered ==
    /\ webStage = "browse"
    /\ browser.open > 0
    /\ browser' = [browser EXCEPT !.open = @ - 1]
    /\ UNCHANGED <<webStage, pending, queued, pages, probed, dastUsed, corsPairs,
                   workflowUsed, workflowSent, webFiles>>

\* The navigation ends, in a page or in an error the report keeps; what is still
\* open is dropped with the browser.
BrowserEnds ==
    /\ webStage = "browse"
    /\ browser' = [browser EXCEPT !.open = 0]
    /\ webStage' = "workflow"
    /\ UNCHANGED <<pending, queued, pages, probed, dastUsed, corsPairs, workflowUsed,
                   workflowSent, webFiles>>

\* BrowserRuntimeUnavailable: the command exits, and what the engines before it
\* found is saved nowhere.
BrowserUnavailable ==
    /\ webStage = "browse"
    /\ browser.used = 0 /\ browser.refused = 0
    /\ webStage' = "exit"
    /\ UNCHANGED <<pending, queued, pages, probed, dastUsed, corsPairs, browser,
                   workflowUsed, workflowSent, webFiles>>

-----------------------------------------------------------------------------
\* authorize_workflow_action, on an URL of the origin.
WorkflowAllowed == workflowUsed < MaxWorkflow

\* One --workflow-get: execute_workflow_navigation, a one-page crawl, charges the
\* action only if it succeeds.
WorkflowStep(ok) ==
    /\ webStage = "workflow"
    /\ Len(workflowSent) < Len(WorkflowUrls)
    /\ LET page == FetchedPage(WorkflowUrls[Len(workflowSent) + 1], ok)
       IN  /\ workflowUsed' = IF WorkflowAllowed /\ page.ok THEN workflowUsed + 1 ELSE workflowUsed
           /\ workflowSent' = Append(workflowSent,
                  IF ~WorkflowAllowed THEN "denied" ELSE IF page.ok THEN "completed" ELSE "failed")
    /\ UNCHANGED <<webStage, pending, queued, pages, probed, dastUsed, corsPairs, browser,
                   webFiles>>

\* The reports are saved one after the other, the crawl first; a failed write ends
\* the command.
SaveWebReports ==
    /\ webStage = "workflow"
    /\ Len(workflowSent) = Len(WorkflowUrls)
    /\ webStage' = "done"
    /\ \E n \in 0 .. 4 :
        webFiles' = Range(SubSeq(<<"crawl", "workflow", "dast", "browser">>, 1, n))
    /\ UNCHANGED <<pending, queued, pages, probed, dastUsed, corsPairs, browser,
                   workflowUsed, workflowSent>>

WebNext ==
    \/ \E ok \in BOOLEAN : CrawlPage(ok) \/ WorkflowStep(ok)
    \/ CrawlEnds \/ Probe \/ CorsBaseline \/ CorsProbe
    \/ \E document \in BOOLEAN : InterceptRequest(document)
    \/ RouteAnswered \/ BrowserEnds \/ BrowserUnavailable
    \/ SaveWebReports

WebSpec == WebInit /\ [][WebNext]_webVars

-----------------------------------------------------------------------------
\* A crawl that ends has followed every link it saw, except those --max-pages cut
\* off; no URL is fetched twice, and nothing outside the origin is (crawl_site).
CrawlIsExhaustive ==
    /\ \A i, j \in DOMAIN pages : pages[i].url = pages[j].url => i = j
    /\ Len(pages) <= MaxPages
    /\ webStage # "crawl" /\ Len(pages) < MaxPages =>
        \A i \in DOMAIN pages : pages[i].links \subseteq {pages[j].url : j \in DOMAIN pages}

\* The engines behind the crawl keep their request budgets, whatever fails and
\* however the browser's requests overlap: probes and CORS targets are pages that
\* answered, no more browser requests are under way than were paid for, and the
\* completed workflow actions are within theirs (intercept_request,
\* reserve_dast_request, advance_workflow_state).
WebBudgetsHold ==
    /\ Len(probed) <= MaxProbes /\ Range(probed) \subseteq Range(GoodPages)
    /\ dastUsed <= MaxDast
    /\ browser.open <= browser.used /\ browser.used <= MaxBrowserRequests
    /\ browser.documents <= MaxBrowserPages
    /\ Cardinality({i \in DOMAIN workflowSent : workflowSent[i] = "completed"}) <= MaxWorkflow

\* A command that gets past its CORS check has sent every target its baseline and
\* its probe: the budget never cuts the check short.  Only the target under way, or
\* the one whose answer raised and ended the command, may have had its baseline
\* alone; every request is charged once (assess_credentialed_cors,
\* execute_dast_http_request).
CorsIsCarriedThrough ==
    /\ \A i \in DOMAIN corsPairs : i < Len(corsPairs) => corsPairs[i] = 2
    /\ dastUsed = 2 * Len(corsPairs) - (IF HalfPair THEN 1 ELSE 0)
    /\ webStage \in {"browse", "workflow", "done", "exit"} =>
        ~HalfPair /\ Len(corsPairs) = Len(Candidates(CorsTargets))

\* A web assessment goes through all it may, and through no more than it may
\* (crawl_site, assess_web_pages_safe_active, assess_credentialed_cors,
\* discover_with_playwright, execute_workflow_navigation).
WebAssessmentIsBounded == CrawlIsExhaustive /\ WebBudgetsHold /\ CorsIsCarriedThrough

=============================================================================
