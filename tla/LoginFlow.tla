----------------------------- MODULE LoginFlow -----------------------------
(***************************************************************************)
(* The OpenID Connect login of internal/oauth/oauth.go and the token check *)
(* of idtoken.go: /login, /callback, /logout and the WebSocket handshake,  *)
(* with the cookies they share in a browser whose tabs log in side by side.*)
(*                                                                         *)
(* A login is a number f, which stands for its state and for its nonce:    *)
(* both are fresh random strings.  A request carries the cookies the jar   *)
(* held when it was sent; the answer changes the jar when it arrives.      *)
(* The callback URL of a login can be opened at any time, repeatedly, and  *)
(* in any browser (a reload, a restored tab, a link passed on).            *)
(***************************************************************************)
EXTENDS Integers

CONSTANTS Browsers, Calls,   \* Calls: bound on the callbacks under way
          MaxLogins,         \* bound on the logins
          IssuerKnown        \* discovery named an issuer

ASSUME LoginFlowAssumption == MaxLogins \in Nat /\ IssuerKnown \in BOOLEAN

VARIABLES
    logins,     \* how many logins have been started
    owner,      \* the browser each login was started in
    jar,        \* the cookies of each browser; 0 or NoToken for none
    call,       \* the callback requests under way
    answered,   \* history: logins whose callback was answered where they started
    disturbed   \* history: logins whose flow cookies something else touched

vars == <<logins, owner, jar, call, answered, disturbed>>

Flows == 1..MaxLogins
Maybe == 0..MaxLogins

\* Why validateRawToken refuses a token, or none.
Defects == {"none", "malformed", "alg", "kid", "signature", "expired", "issuer", "audience"}
Tokens == [nonce : Maybe, defect : Defects]
NoToken == [nonce |-> 0, defect |-> "malformed"]

\* A callback request: the browser that sent it, the state parameter, the
\* flow cookies it carries and the token it led to.  late: sent after its
\* login had been answered.
Requests ==
    [pc : {"check", "exchange", "limited", "refused", "accepted"}, browser : Browsers,
     query : Flows, state : Maybe, nonce : Maybe, token : Tokens, late : BOOLEAN]
Idle == [pc |-> "idle"]

TypeOK ==
    /\ logins \in Maybe
    /\ owner \in [Flows -> Browsers]
    /\ jar \in [Browsers -> [state : Maybe, nonce : Maybe, id_token : Tokens]]
    /\ call \in [Calls -> Requests \cup {Idle}]
    /\ answered \subseteq Flows /\ disturbed \subseteq Flows

Init ==
    /\ logins = 0 /\ owner \in [Flows -> Browsers]
    /\ jar = [b \in Browsers |-> [state |-> 0, nonce |-> 0, id_token |-> NoToken]]
    /\ call = [c \in Calls |-> Idle]
    /\ answered = {} /\ disturbed = {}

\* The logins started in browser b so far.
Started(b) == {f \in 1..logins : owner[f] = b}
-----------------------------------------------------------------------------
SetIfAbsent(cookies, f) ==
    IF cookies.state = 0 THEN [cookies EXCEPT !.state = f, !.nonce = f] ELSE cookies

\* setFlowCookie, for state and nonce.
SetFlowCookies(cookies, f) == [cookies EXCEPT !.state = f, !.nonce = f]

KeepFlowCookies(cookies) == cookies

ClearFlowCookies(cookies) == [cookies EXCEPT !.state = 0, !.nonce = 0]

\* handleLogin.  A login refused by the rate limiter, or for want of
\* randomness, sets no cookie and changes nothing.
Login(b) ==
    /\ logins < MaxLogins /\ owner[logins + 1] = b
    /\ logins' = logins + 1
    /\ jar' = [jar EXCEPT ![b] = SetFlowCookies(jar[b], logins + 1)]
    /\ disturbed' = disturbed \cup Started(b)
    /\ UNCHANGED <<owner, call, answered>>

\* Browser b opens the callback URL of login f.
Callback(c, b, f) ==
    /\ call[c].pc = "idle"
    /\ call' = [call EXCEPT ![c] =
                  [pc |-> "check", browser |-> b, query |-> f, state |-> jar[b].state,
                   nonce |-> jar[b].nonce, token |-> NoToken, late |-> f \in answered]]
    /\ UNCHANGED <<logins, owner, jar, answered, disturbed>>

\* The rate limiter refuses the request before the handler sees it.
Limited(c) ==
    /\ call[c].pc = "check"
    /\ call' = [call EXCEPT ![c].pc = "limited"]
    /\ UNCHANGED <<logins, owner, jar, answered, disturbed>>

StatePresent(r) == r.state # 0

\* The state cookie is there and equals the state parameter.
StateMatches(r) == r.state # 0 /\ r.state = r.query

CheckState(c) ==
    /\ call[c].pc = "check"
    /\ call' = [call EXCEPT ![c].pc = IF StateMatches(call[c]) THEN "exchange" ELSE "refused"]
    /\ UNCHANGED <<logins, owner, jar, answered, disturbed>>

\* validateRawToken.
ValidToken(t) == t.defect \in {"none"} \cup (IF IssuerKnown THEN {} ELSE {"issuer"})

NonceIgnored(r, t) == r.nonce # 0

\* The nonce cookie is there and equals the token's nonce claim, which is not empty.
NonceMatches(r, t) == r.nonce # 0 /\ t.nonce # 0 /\ t.nonce = r.nonce

\* Exchange returns an ID token, of whatever login; then validateRawToken and
\* the nonce decide.
Exchange(c) ==
    /\ call[c].pc = "exchange"
    /\ \E n \in 0..logins, d \in Defects :
        LET t == [nonce |-> n, defect |-> d] IN
        call' = [call EXCEPT ![c] =
                   IF ValidToken(t) /\ NonceMatches(call[c], t)
                     THEN [call[c] EXCEPT !.pc = "accepted", !.token = t]
                     ELSE [call[c] EXCEPT !.pc = "refused"]]
    /\ UNCHANGED <<logins, owner, jar, answered, disturbed>>

NoTimeout(c) == FALSE

\* The 10 s context ends the exchange whatever the identity provider does.
TimesOut(c) == call[c].pc = "exchange"

\* Exchange returns an error, or a response without ID token.
ExchangeFails(c) ==
    /\ TimesOut(c)
    /\ call' = [call EXCEPT ![c].pc = "refused"]
    /\ UNCHANGED <<logins, owner, jar, answered, disturbed>>

\* The cookies of a browser after the answer to request r.
Answer(cookies, r) ==
    IF r.pc = "limited" THEN cookies
    ELSE IF r.pc = "accepted" THEN [ClearFlowCookies(cookies) EXCEPT !.id_token = r.token]
    ELSE ClearFlowCookies(cookies)

\* The answer arrives in the browser.
Respond(c) ==
    LET b == call[c].browser r == call[c] IN
    /\ r.pc \in {"limited", "refused", "accepted"}
    /\ jar' = [jar EXCEPT ![b] = Answer(jar[b], r)]
    /\ call' = [call EXCEPT ![c] = Idle]
    /\ answered' = IF r.pc # "limited" /\ owner[r.query] = b
                     THEN answered \cup {r.query} ELSE answered
    /\ disturbed' = IF r.pc # "limited" THEN disturbed \cup Started(b) ELSE disturbed
    /\ UNCHANGED <<logins, owner>>

\* The tab is closed or the connection breaks: no answer arrives.
Lost(c) ==
    /\ call[c].pc # "idle"
    /\ call' = [call EXCEPT ![c] = Idle]
    /\ UNCHANGED <<logins, owner, jar, answered, disturbed>>

\* handleLogout; the browser's tab leaves the page, other tabs may stay.
Logout(b) ==
    /\ jar' = [jar EXCEPT ![b].id_token = NoToken]
    /\ UNCHANGED <<logins, owner, call, answered, disturbed>>
-----------------------------------------------------------------------------
\* ValidateToken for a handshake with these cookies and no Authorization header.
ValidateToken(cookies) == cookies.id_token # NoToken /\ ValidToken(cookies.id_token)

\* The browser evicts one of the flow cookies, or the session's MaxAge is over.
DropCookie(b, name) ==
    /\ jar' = [jar EXCEPT ![b][name] = IF name = "id_token" THEN NoToken ELSE 0]
    /\ disturbed' = IF name = "id_token" THEN disturbed ELSE disturbed \cup Started(b)
    /\ UNCHANGED <<logins, owner, call, answered>>

Next ==
    \/ \E b \in Browsers : \/ Login(b) \/ Logout(b)
                           \/ \E name \in {"state", "nonce", "id_token"} : DropCookie(b, name)
    \/ \E c \in Calls :
          \/ \E b \in Browsers, f \in 1..logins : Callback(c, b, f)
          \/ Limited(c) \/ CheckState(c) \/ Exchange(c) \/ ExchangeFails(c)
          \/ Respond(c) \/ Lost(c)

Spec == Init /\ [][Next]_vars

(* The handler runs and its timeout fires; nothing makes the identity       *)
(* provider answer.                                                         *)
CallFairness(c) ==
    WF_vars(CheckState(c)) /\ WF_vars(ExchangeFails(c)) /\ WF_vars(Respond(c))

Fairness == \A c \in Calls : CallFairness(c)

FairSpec == Spec /\ Fairness

\* A handler at a step of its own can take it: what the proof of Answered has
\* to know of ENABLED, which the proof system cannot compute.
HandlersCanRun ==
    \A c \in Calls :
        /\ call[c].pc = "check" => ENABLED <<CheckState(c)>>_vars
        /\ call[c].pc = "exchange" => ENABLED <<ExchangeFails(c)>>_vars
        /\ call[c].pc \in {"limited", "refused", "accepted"} => ENABLED <<Respond(c)>>_vars
-----------------------------------------------------------------------------
\* The token under which a browser's WebSocket is let in belongs to a login
\* started in this very browser, whatever token the provider's endpoint
\* returned and whatever callback URLs were opened (README.md:76).
SessionOwn ==
    \A b \in Browsers : ValidateToken(jar[b]) => jar[b].id_token.nonce \in Started(b)

\* A code is sent to the provider only for a login of the browser that
\* brings it (oauth.go:169, state binds the callback to this browser).
ExchangeOwn ==
    \A c \in Calls :
        call[c].pc = "exchange" => call[c].query \in Started(call[c].browser)

\* A callback sent after its login was answered never gets to the exchange,
\* even if the provider would honour the code again; one whose answer was
\* lost, or that was turned away by the rate limiter, may be repeated.
NoReplay ==
    \A c \in Calls :
        call[c].pc \in {"exchange", "accepted"} => ~call[c].late

\* A browser's own callback carries the state and the nonce of its login,
\* and so passes both checks, unless a later login in another tab, the answer
\* to a callback, or the browser itself took these cookies.
OnlyOverlapRefuses ==
    \A c \in Calls :
        call[c].pc # "idle" /\ call[c].query \in Started(call[c].browser) \ disturbed
          => call[c].state = call[c].query /\ call[c].nonce = call[c].query

\* A callback never hangs, although the provider may (oauth.go:186).
Answered == \A c \in Calls : call[c].pc # "idle" ~> call[c].pc = "idle"
=============================================================================
