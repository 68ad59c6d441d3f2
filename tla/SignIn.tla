-------------------------------- MODULE SignIn --------------------------------
(***************************************************************************)
(* Signing in to the web: one browser that opens pages, is redirected,     *)
(* goes to a provider and comes back with a code, and the replicas of the  *)
(* web, which answer the callback (packages/web/pages/api/auth/            *)
(* [...nextauth].js, packages/web/lib/auth.js), the pages of /auth, the    *)
(* proxy before /admin and the client's recovery from a 401.               *)
(*                                                                         *)
(* The user may reload a callback that has not been answered, and go back  *)
(* to one that has.  A replica remembers the codes it has answered in its  *)
(* own memory.  NextAuth and the providers are external.                   *)
(***************************************************************************)
EXTENDS Integers, Sequences, FiniteSets

CONSTANTS Configs,      \* configurations a deployment of the web can have
          Replicas,     \* processes of the web
          Accounts,     \* addresses of accounts
          AdminEmails,  \* those of WEB_ADMIN_EMAILS
          MaxAttempts,  \* bound: flows begun at a provider
          MaxRequests,  \* bound: callbacks requested
          MaxVisits,    \* bound: pages the user opens
          None

Schemes == {"http", "https"}

ASSUME SignInAssumption ==
    /\ Configs \subseteq [nextAuthUrl : Schemes, webUrl : Schemes, production : BOOLEAN,
                          google : BOOLEAN, github : BOOLEAN, demo : BOOLEAN]
    /\ AdminEmails \subseteq Accounts
    /\ {MaxAttempts, MaxRequests, MaxVisits} \subseteq Nat
    /\ \A email \in Accounts, role \in {"admin", "member"} : None # [email |-> email, role |-> role]

Apps == {"home", "admin"}
Targets == Apps \union {"signin", "error", "api"}
Codes == 0..MaxAttempts   \* 0: a callback without a code

Url(path) == [path |-> path, target |-> None, code |-> 0]

VARIABLES
    config,    \* the configuration of every replica
    jar,       \* the browser's cookies: session token, state and callback-url
    tab,       \* the tab: its address, whether it loads, the callback it waits for
    recovery,  \* the page in sessionStorage of which a 401 was recovered
    flows,     \* the flows begun at a provider, each with its code
    requests,  \* the callbacks requested, oldest first
    spent,     \* codes the provider does not exchange again
    memory,    \* memory[w][code]: the location successfulGoogleCallbackCodes has at w
    visits     \* pages opened

server == <<flows, requests, spent, memory>>
vars == <<config, jar, tab, recovery, server, visits>>

-----------------------------------------------------------------------------
(* Configuration, tokens and addresses.                                     *)

\* Only the mode of the build decides.
SecureInProduction(c) == c.production

shouldUseSecureCookies(c) == "https" \in {c.nextAuthUrl, c.webUrl} \/ c.production

\* The name getToken looks for, from NEXTAUTH_URL alone.
ProxyUsesSecureCookies(c) == c.nextAuthUrl = "https"

resolveAuthProviders(c) ==
    {p \in {"google", "github"} : c[p]} \union {d \in {"demo"} : c.demo /\ ~c.google}

resolveRole(email) == IF email \in AdminEmails THEN "admin" ELSE "member"

\* The token of a user who signs in; later ones keep what it says.
jwt(email) == [email |-> email, role |-> resolveRole(email)]

getWebSession == jar.session
\* The proxy sees the session when it looks for the cookie the pages set.
getToken == IF ProxyUsesSecureCookies(config) = shouldUseSecureCookies(config) THEN jar.session ELSE None

\* The target as it is.
AnyTarget(target) == target

normalizeCallbackTarget(target) == IF target \in Apps THEN target ELSE "home"
buildSignInRedirectUrl(target) == [Url("signin") EXCEPT !.target = normalizeCallbackTarget(target)]
buildAuthErrorUrl == [Url("error") EXCEPT !.target = "home"]

\* The page an address leads to for the cookies the browser has now.
Served(url) ==
    IF url.path = "admin" /\ (getToken = None \/ getWebSession = None) THEN buildSignInRedirectUrl("admin")
    ELSE IF url.path \in {"signin", "error"} /\ getWebSession # None THEN Url(normalizeCallbackTarget(url.target))
    ELSE url

-----------------------------------------------------------------------------
(* The browser.                                                             *)

Init ==
    /\ config \in Configs
    /\ jar = [session |-> None, state |-> 0, target |-> "home"]
    /\ tab = [url |-> Url("home"), loading |-> FALSE, request |-> 0]
    /\ recovery = None
    /\ flows = << >> /\ requests = << >> /\ spent = {} /\ visits = 0
    /\ memory = [w \in Replicas |-> [c \in Codes |-> None]]

Go(url) == tab' = [url |-> url, loading |-> TRUE, request |-> 0]

At(path) == ~tab.loading /\ tab.url.path = path

\* The user opens a page, whatever the tab waits for.
Visit ==
    /\ visits < MaxVisits /\ visits' = visits + 1
    /\ \/ \E path \in Apps : Go(Url(path))
       \/ \E path \in {"signin", "error"}, target \in Targets : Go([Url(path) EXCEPT !.target = target])
    /\ UNCHANGED <<config, jar, recovery, server>>

\* One step of a chain of redirects.
Serve ==
    /\ tab.loading /\ tab.request = 0
    /\ tab' = [tab EXCEPT !.url = Served(tab.url), !.loading = Served(tab.url) # tab.url]
    /\ UNCHANGED <<config, jar, recovery, server, visits>>

\* NextAuth remembers the flow and where it is to end in cookies.
Continue(p, email) ==
    /\ At("signin") /\ p \in resolveAuthProviders(config) \ {"demo"} /\ Len(flows) < MaxAttempts
    /\ flows' = Append(flows, [provider |-> p, email |-> email])
    /\ jar' = [jar EXCEPT !.state = Len(flows'), !.target = normalizeCallbackTarget(tab.url.target)]
    /\ tab' = [tab EXCEPT !.url = [Url("provider") EXCEPT !.code = Len(flows')]]
    /\ UNCHANGED <<config, recovery, requests, spent, memory, visits>>

DemoAccess(email) ==
    /\ At("signin") /\ "demo" \in resolveAuthProviders(config)
    /\ jar' = [jar EXCEPT !.session = jwt(email)]
    /\ Go(Url(normalizeCallbackTarget(tab.url.target)))
    /\ UNCHANGED <<config, recovery, server, visits>>

\* The browser asks for the callback with the cookies it has.
Request(flow, code) ==
    /\ Len(requests) < MaxRequests
    /\ requests' = Append(requests, [flow |-> flow, code |-> code, state |-> jar.state, target |-> jar.target,
                                     step |-> "sent", at |-> None, to |-> Url("failed"), cookies |-> "kept"])
    /\ tab' = [url |-> [Url("callback") EXCEPT !.code = flow], loading |-> TRUE, request |-> Len(requests')]
    /\ UNCHANGED <<config, jar, recovery, flows, spent, memory>>

\* The provider sends the browser back, with a code or with an error.
Return(code) ==
    /\ At("provider") /\ code \in {0, tab.url.code} /\ Request(tab.url.code, code) /\ UNCHANGED visits

Reload == tab.request # 0 /\ Request(requests[tab.request].flow, requests[tab.request].code) /\ UNCHANGED visits

\* Back to a callback that has been left.
Back ==
    /\ visits < MaxVisits /\ visits' = visits + 1
    /\ \E r \in 1..Len(requests) : Request(requests[r].flow, requests[r].code)

EndSession ==
    /\ jar.session # None /\ jar' = [jar EXCEPT !.session = None]
    /\ UNCHANGED <<config, tab, recovery, server, visits>>

\* A request of the page is answered with 401: to the sign-in page once a
\* minute, the next time without the cookies.
Unauthorized ==
    /\ At("admin") /\ jar.session = None
    /\ IF recovery = tab.url.path
       THEN jar' = [jar EXCEPT !.session = None] /\ UNCHANGED <<tab, recovery>>
       ELSE recovery' = tab.url.path /\ Go(buildSignInRedirectUrl(tab.url.path)) /\ UNCHANGED jar
    /\ UNCHANGED <<config, server, visits>>

Cooldown == recovery # None /\ recovery' = None /\ UNCHANGED <<config, jar, tab, server, visits>>

-----------------------------------------------------------------------------
(* The callback.                                                            *)

isGoogleCallbackRequest(r) == flows[requests[r].flow].provider = "google"

resolveSuccessfulGoogleCallback(r, w) == IF isGoogleCallbackRequest(r) THEN memory[w][requests[r].code] ELSE None

Answer(r, to, cookies) ==
    requests' = [requests EXCEPT ![r].step = "answered", ![r].to = to, ![r].cookies = cookies]

\* handleGoogleCallbackReplay, or on to NextAuth.
Arrive(r, w) ==
    /\ requests[r].step = "sent"
    /\ LET known == resolveSuccessfulGoogleCallback(r, w)
       IN  IF known # None THEN Answer(r, known, "kept")
           ELSE requests' = [requests EXCEPT ![r].step = "exchange", ![r].at = w]
    /\ UNCHANGED <<config, jar, tab, recovery, flows, spent, memory, visits>>

\* Every location is remembered whatever the answer says.
RememberAnswered(r, to, cookies) ==
    memory' = IF isGoogleCallbackRequest(r) /\ requests[r].code # 0
              THEN [memory EXCEPT ![requests[r].at][requests[r].code] = Url(requests[r].target)] ELSE memory

\* An answer that sets the cookies of NextAuth or expires them names
\* __Secure-next-auth.session-token.
NamesSessionToken(cookies) ==
    cookies = "expired" \/ (cookies = "session" /\ shouldUseSecureCookies(config))

\* Which is what the replica remembers an answer for.
rememberSuccessfulGoogleCallback(r, to, cookies) ==
    memory' = IF isGoogleCallbackRequest(r) /\ requests[r].code # 0 /\ NamesSessionToken(cookies)
              THEN [memory EXCEPT ![requests[r].at][requests[r].code] = to] ELSE memory

Exchanges(r) == requests[r].step = "exchange"

\* What NextAuth and the provider accept: the state of this browser's flow
\* and a code not exchanged before.
Acceptable(r) == requests[r].code # 0 /\ requests[r].state = requests[r].flow /\ requests[r].code \notin spent

Succeed(r) ==
    /\ Exchanges(r) /\ Acceptable(r)
    /\ spent' = spent \union {requests[r].code}
    /\ Answer(r, Url(requests[r].target), "session")
    /\ rememberSuccessfulGoogleCallback(r, Url(requests[r].target), "session")
    /\ UNCHANGED <<config, jar, tab, recovery, flows, visits>>

\* A refused exchange, or a failure before or after the code is spent.
Spending(r) == spent' \in {spent, spent \union ({requests[r].code} \ {0})}

\* The failure leads back to where the flow was to end.
ErrorLocationOfFlow(r) == Url(requests[r].target)

\* Where a failure leads, with the cookies expired: to the error page.
ErrorLocation(r) == buildAuthErrorUrl

\* NextAuth redirects to its error page or answers 500: rewritten for Google
\* by normalizeGoogleCallbackResponse; other providers lead to the sign-in page.
Refuse(r) ==
    /\ Exchanges(r) /\ Spending(r)
    /\ IF isGoogleCallbackRequest(r)
       THEN /\ Answer(r, ErrorLocation(r), "expired")
            /\ rememberSuccessfulGoogleCallback(r, ErrorLocation(r), "expired")
       ELSE Answer(r, buildSignInRedirectUrl("home"), "kept") /\ UNCHANGED memory
    /\ UNCHANGED <<config, jar, tab, recovery, flows, visits>>

\* NextAuth throws: recoverable for Google, otherwise the framework answers.
Throw(r) ==
    /\ Exchanges(r) /\ Spending(r)
    /\ \/ isGoogleCallbackRequest(r) /\ Answer(r, ErrorLocation(r), "expired")
       \/ Answer(r, Url("failed"), "kept")
    /\ UNCHANGED <<config, jar, tab, recovery, flows, memory, visits>>

\* The browser takes the answer it still waits for.
Deliver(r) ==
    /\ tab.request = r /\ requests[r].step = "answered"
    /\ jar' = IF requests[r].cookies = "kept" THEN jar
              ELSE IF requests[r].cookies = "expired" THEN [session |-> None, state |-> 0, target |-> "home"]
              ELSE [jar EXCEPT !.session = jwt(flows[requests[r].flow].email), !.state = 0]
    /\ Go(requests[r].to)
    /\ UNCHANGED <<config, recovery, server, visits>>

\* A replica loses its memory and the callbacks it is at.
Restart(w) ==
    /\ memory' = [memory EXCEPT ![w] = [c \in Codes |-> None]]
    /\ requests' = [r \in DOMAIN requests |->
                      IF requests[r].at = w /\ requests[r].step = "exchange"
                      THEN [requests[r] EXCEPT !.step = "answered"] ELSE requests[r]]
    /\ UNCHANGED <<config, jar, tab, recovery, flows, spent, visits>>

\* Fifteen minutes after it was remembered.
pruneSuccessfulGoogleCallbacks(w, c) ==
    /\ memory[w][c] # None /\ memory' = [memory EXCEPT ![w][c] = None]
    /\ UNCHANGED <<config, jar, tab, recovery, flows, requests, spent, visits>>

-----------------------------------------------------------------------------

Callback(r) == (\E w \in Replicas : Arrive(r, w)) \/ Succeed(r) \/ Refuse(r) \/ Throw(r) \/ Deliver(r)

Next ==
    \/ Visit \/ Serve \/ Reload \/ Back \/ EndSession \/ Unauthorized \/ Cooldown
    \/ \E email \in Accounts : DemoAccess(email) \/ \E p \in {"google", "github"} : Continue(p, email)
    \/ \E code \in Codes : Return(code)
    \/ \E r \in 1..Len(requests) : Callback(r)
    \/ \E w \in Replicas : Restart(w) \/ \E c \in Codes : pruneSuccessfulGoogleCallbacks(w, c)

\* The browser loads what it is sent to, and a request is answered.
Fairness == WF_vars(Serve) /\ \A r \in 1..MaxRequests : WF_vars(r \in 1..Len(requests) /\ Callback(r))

Spec == Init /\ [][Next]_vars
FairSpec == Spec /\ Fairness

-----------------------------------------------------------------------------
(* Properties.                                                              *)

Urls == [path : Apps \union {"signin", "error", "failed", "provider", "callback"},
         target : Targets \union {None}, code : Codes]
Tokens == {jwt(email) : email \in Accounts}

\* Types: cookies, tab, callbacks and memory (resolveRole, createWebAuthHandler).
TypeOK ==
    /\ jar.session \in Tokens \union {None} /\ jar.state \in Codes /\ jar.target \in Apps
    /\ tab.url \in Urls /\ tab.loading \in BOOLEAN /\ tab.request \in 0..Len(requests)
    /\ tab.request # 0 => tab.loading /\ tab.url.path = "callback"
    /\ \A r \in 1..Len(requests) : /\ requests[r].step \in {"sent", "exchange", "answered"}
                                   /\ requests[r].cookies \in {"kept", "expired", "session"}
    /\ \A w \in Replicas, c \in Codes : memory[w][c] \in Urls \union {None}

\* The address that NEXTAUTH_URL has in a secure deployment.
SecureByItsUrl(c) == (c.production \/ c.webUrl = "https") => c.nextAuthUrl = "https"

\* No redirects go in circles: whatever the user opens, and however a callback
\* is answered, the tab comes to rest at a page, unless a production build or
\* an https WEB_URL is given an http NEXTAUTH_URL (proxy, getServerSideProps of
\* signin and error, normalizeCallbackTarget, shouldUseSecureCookies).
NavigationEnds == SecureByItsUrl(config) => (tab.loading ~> ~tab.loading)

\* A callback that takes the session of the browser away says so: it ends at
\* the error page and rests there (normalizeGoogleCallbackResponse,
\* handleRecoverableOAuthCallbackError).
SignedOutIsTold ==
    [][\A r \in 1..Len(requests) :
         Deliver(r) /\ jar.session # None /\ jar'.session = None => tab'.url.path = "error"]_vars

Succeeded(c) == \E r \in 1..Len(requests) : requests[r].code = c /\ requests[r].cookies = "session"

\* A callback is answered from memory with a page of the app only when its
\* code has signed somebody in (rememberSuccessfulGoogleCallback).
AppOnlyAfterSuccess ==
    \A w \in Replicas, c \in Codes : memory[w][c] # None /\ memory[w][c].path \in Apps => Succeeded(c)

\* What is remembered of a success is pruned, never replaced by another
\* location (rememberSuccessfulGoogleCallback).
SuccessReplayed ==
    [][\A w \in Replicas, c \in Codes :
         memory[w][c] # None /\ memory[w][c].path \in Apps => memory'[w][c] \in {memory[w][c], None}]_vars
=============================================================================
