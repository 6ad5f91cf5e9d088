-------------------------- MODULE LoginFlowProofs --------------------------
(* Proofs of the safety properties of LoginFlow.                            *)
EXTENDS LoginFlow, TLAPS

Own(b) == {0} \cup Started(b)

\* A request under way carries cookies of its browser's own logins, and what
\* it has passed so far is recorded in it.
RequestOK(r) ==
    r.pc # "idle" =>
        /\ r.query \in 1..logins
        /\ r.state \in Own(r.browser) /\ r.nonce \in Own(r.browser)
        /\ r.pc \in {"exchange", "accepted"} => StateMatches(r)
        /\ r.pc = "accepted" => r.token.nonce = r.nonce /\ r.nonce # 0
        /\ r.late => r.state # r.query
        /\ r.query \in Started(r.browser) \ disturbed => r.state = r.query /\ r.nonce = r.query

RequestsOK == \A c \in Calls : RequestOK(call[c])

\* The flow cookies in a jar are of the browser's own logins, and of none
\* that has been answered.
CookiesOwn ==
    /\ answered \subseteq 1..logins
    /\ \A b \in Browsers : /\ jar[b].state \in Own(b) /\ jar[b].nonce \in Own(b)
                           /\ jar[b].state \notin answered

\* A login nothing has disturbed still has its cookies.
Undisturbed ==
    \A f \in (1..logins) \ disturbed : jar[owner[f]].state = f /\ jar[owner[f]].nonce = f

IInv == TypeOK /\ RequestsOK /\ CookiesOwn /\ Undisturbed /\ SessionOwn
-----------------------------------------------------------------------------
\* A slot that is not idle holds a request with all its fields.
LEMMA Busy ==
    ASSUME TypeOK, NEW c \in Calls, call[c].pc # "idle"
    PROVE  call[c] \in Requests
  <1>1. call[c] \in Requests \cup {Idle}
    BY DEF TypeOK
  <1>2. call[c] # Idle
    BY DEF Idle
  <1> QED
    BY <1>1, <1>2

\* The initial state of newly registered handlers satisfies the invariant.
LEMMA InitIInv == Init => IInv
  <1> SUFFICES ASSUME Init PROVE IInv
    OBVIOUS
  <1> USE LoginFlowAssumption
  <1>1. NoToken \in Tokens /\ 0 \in Maybe
    BY DEF NoToken, Tokens, Defects, Maybe
  <1>2. TypeOK
    BY <1>1 DEF Init, TypeOK, Maybe
  <1>3. RequestsOK
    BY DEF Init, RequestsOK, RequestOK, Idle
  <1>4. CookiesOwn /\ Undisturbed
    BY DEF Init, CookiesOwn, Undisturbed, Own, Maybe
  <1>5. SessionOwn
    BY DEF Init, SessionOwn, ValidateToken
  <1> QED
    BY <1>2, <1>3, <1>4, <1>5 DEF IInv

\* A step that only writes a correct request, or Idle, into one slot.
LEMMA SlotStep ==
    ASSUME IInv, NEW c \in Calls, NEW r \in Requests \cup {Idle}, RequestOK(r),
           call' = [call EXCEPT ![c] = r],
           UNCHANGED <<logins, owner, jar, answered, disturbed>>
    PROVE  IInv'
  <1>1. TypeOK'
    BY DEF IInv, TypeOK
  <1>2. RequestsOK'
    <2> SUFFICES ASSUME NEW d \in Calls PROVE RequestOK(call[d])'
      BY DEF RequestsOK
    <2>1. call'[d] = r \/ call'[d] = call[d]
      BY DEF IInv, TypeOK
    <2>2. RequestOK(call[d])
      BY DEF IInv, RequestsOK
    <2> QED
      BY <2>1, <2>2 DEF RequestOK, Own, Started, StateMatches
  <1>3. CookiesOwn' /\ Undisturbed' /\ SessionOwn'
    BY DEF IInv, CookiesOwn, Own, Undisturbed, SessionOwn, Started, ValidateToken, ValidToken
  <1> QED
    BY <1>1, <1>2, <1>3 DEF IInv

\* Opening a callback URL and every step of handleCallback on the server.
LEMMA HandlerSteps ==
    ASSUME IInv, NEW c \in Calls,
           \/ \E b \in Browsers, f \in 1..logins : Callback(c, b, f)
           \/ Limited(c) \/ CheckState(c) \/ Exchange(c) \/ ExchangeFails(c) \/ Lost(c)
    PROVE  IInv'
  <1> USE LoginFlowAssumption
  <1>0. TypeOK /\ RequestOK(call[c])
    BY DEF IInv, RequestsOK
  <1>1. ASSUME NEW b \in Browsers, NEW f \in 1..logins, Callback(c, b, f)
        PROVE  IInv'
    <2> DEFINE r == [pc |-> "check", browser |-> b, query |-> f, state |-> jar[b].state,
                     nonce |-> jar[b].nonce, token |-> NoToken, late |-> f \in answered]
    <2>1. r \in Requests
      <3>1. jar[b].state \in Maybe /\ jar[b].nonce \in Maybe /\ f \in Flows
        BY <1>0 DEF TypeOK, Maybe, Flows
      <3>2. NoToken \in Tokens
        BY DEF NoToken, Tokens, Defects, Maybe
      <3> QED
        BY <3>1, <3>2 DEF Requests
    <2>2. r.state \in Own(b) /\ r.nonce \in Own(b)
      BY DEF IInv, CookiesOwn
    <2>3. f \in answered => jar[b].state # f
      BY DEF IInv, CookiesOwn
    <2>4. f \in Started(b) \ disturbed => jar[b].state = f /\ jar[b].nonce = f
      BY DEF IInv, Undisturbed, Started
    <2>5. RequestOK(r)
      BY <2>2, <2>3, <2>4 DEF RequestOK
    <2>6. call' = [call EXCEPT ![c] = r] /\ UNCHANGED <<logins, owner, jar, answered, disturbed>>
      BY <1>1 DEF Callback
    <2> HIDE DEF r
    <2> QED
      BY <2>1, <2>5, <2>6, SlotStep
  <1>2. CASE Lost(c)
    <2>1. RequestOK(Idle)
      BY DEF RequestOK, Idle
    <2> QED
      BY <1>2, <2>1, SlotStep DEF Lost
  <1>3. CASE Limited(c)
    <2> DEFINE r == [call[c] EXCEPT !.pc = "limited"]
    <2>1. call[c] \in Requests
      BY <1>0, <1>3, Busy DEF Limited
    <2>2. r \in Requests
      BY <2>1 DEF Requests
    <2>3. RequestOK(r)
      BY <1>0, <1>3, <2>1 DEF RequestOK, Requests, Limited, StateMatches
    <2>4. call' = [call EXCEPT ![c] = r] /\ UNCHANGED <<logins, owner, jar, answered, disturbed>>
      BY <1>3 DEF Limited
    <2> HIDE DEF r
    <2> QED
      BY <2>2, <2>3, <2>4, SlotStep
  <1>4. CASE CheckState(c)
    <2> DEFINE r == [call[c] EXCEPT !.pc = IF StateMatches(call[c]) THEN "exchange" ELSE "refused"]
    <2>1. call[c] \in Requests
      BY <1>0, <1>4, Busy DEF CheckState
    <2>2. r \in Requests
      BY <2>1 DEF Requests
    <2>3. RequestOK(r)
      BY <1>0, <1>4, <2>1 DEF RequestOK, Requests, CheckState, StateMatches
    <2>4. call' = [call EXCEPT ![c] = r] /\ UNCHANGED <<logins, owner, jar, answered, disturbed>>
      BY <1>4 DEF CheckState
    <2> HIDE DEF r
    <2> QED
      BY <2>2, <2>3, <2>4, SlotStep
  <1>5. CASE ExchangeFails(c)
    <2> DEFINE r == [call[c] EXCEPT !.pc = "refused"]
    <2>1. call[c] \in Requests
      BY <1>0, <1>5, Busy DEF ExchangeFails, TimesOut
    <2>2. r \in Requests
      BY <2>1 DEF Requests
    <2>3. RequestOK(r)
      BY <1>0, <1>5, <2>1 DEF RequestOK, Requests, ExchangeFails, TimesOut, StateMatches
    <2>4. call' = [call EXCEPT ![c] = r] /\ UNCHANGED <<logins, owner, jar, answered, disturbed>>
      BY <1>5 DEF ExchangeFails
    <2> HIDE DEF r
    <2> QED
      BY <2>2, <2>3, <2>4, SlotStep
  <1>6. CASE Exchange(c)
    <2>1. call[c] \in Requests /\ call[c].pc = "exchange"
      BY <1>0, <1>6, Busy DEF Exchange
    <2>2. PICK n \in 0..logins, d \in Defects :
            LET t == [nonce |-> n, defect |-> d] IN
            call' = [call EXCEPT ![c] =
                       IF ValidToken(t) /\ NonceMatches(call[c], t)
                         THEN [call[c] EXCEPT !.pc = "accepted", !.token = t]
                         ELSE [call[c] EXCEPT !.pc = "refused"]]
      BY <1>6 DEF Exchange
    <2> DEFINE t == [nonce |-> n, defect |-> d]
               r == IF ValidToken(t) /\ NonceMatches(call[c], t)
                      THEN [call[c] EXCEPT !.pc = "accepted", !.token = t]
                      ELSE [call[c] EXCEPT !.pc = "refused"]
    <2>3. t \in Tokens
      BY <1>0 DEF Tokens, TypeOK, Maybe
    <2>4. r \in Requests
      BY <2>1, <2>3 DEF Requests
    <2>5. RequestOK(r)
      BY <1>0, <2>1 DEF RequestOK, Requests, NonceMatches, StateMatches
    <2>6. call' = [call EXCEPT ![c] = r] /\ UNCHANGED <<logins, owner, jar, answered, disturbed>>
      BY <1>6, <2>2 DEF Exchange
    <2> HIDE DEF r
    <2> QED
      BY <2>4, <2>5, <2>6, SlotStep
  <1> QED
    BY <1>1, <1>2, <1>3, <1>4, <1>5, <1>6

\* handleLogin: the new login's cookies replace those of the browser's others.
LEMMA LoginStep ==
    ASSUME IInv, NEW b \in Browsers, Login(b)
    PROVE  IInv'
  <1> USE LoginFlowAssumption
  <1> DEFINE f == logins + 1
  <1>0. TypeOK /\ logins \in Nat /\ f \in 1..MaxLogins /\ owner[f] = b
    BY DEF IInv, TypeOK, Login, Maybe
  <1>1. /\ jar'[b].state = f /\ jar'[b].nonce = f /\ jar'[b].id_token = jar[b].id_token
        /\ \A x \in Browsers \ {b} : jar'[x] = jar[x]
    BY <1>0 DEF Login, SetFlowCookies, TypeOK
  <1>2. TypeOK'
    <2>1. (logins \in Maybe)' /\ f \in Maybe
      BY <1>0 DEF Login, Maybe
    <2>2. SetFlowCookies(jar[b], f) \in [state : Maybe, nonce : Maybe, id_token : Tokens]
      BY <1>0, <2>1 DEF TypeOK, SetFlowCookies
    <2>3. (disturbed \subseteq Flows)'
      <3>1. Started(b) \subseteq Flows
        BY <1>0 DEF Started, Flows
      <3> QED
        BY <1>0, <3>1 DEF TypeOK, Login
    <2> QED
      BY <1>0, <2>1, <2>2, <2>3 DEF TypeOK, Login
  <1>3. \A x \in Browsers : Started(x)' = IF x = b THEN Started(b) \cup {f} ELSE Started(x)
    BY <1>0 DEF Login, Started
  <1>4. RequestsOK'
    <2> SUFFICES ASSUME NEW c \in Calls, call[c].pc # "idle" PROVE RequestOK(call[c])'
      BY DEF RequestsOK, RequestOK, Login
    <2>1. call[c] \in Requests /\ RequestOK(call[c]) /\ call' = call
      BY <1>0, Busy DEF IInv, RequestsOK, Login
    <2>2. call[c].browser \in Browsers /\ call[c].query \in 1..logins /\ call[c].query # f
      BY <1>0, <2>1 DEF Requests, RequestOK
    <2>3. call[c].query \in (1..logins)'
      BY <1>0, <2>2 DEF Login
    <2>4. call[c].state \in Own(call[c].browser)' /\ call[c].nonce \in Own(call[c].browser)'
      BY <1>3, <2>1, <2>2 DEF RequestOK, Own
    <2>5. call[c].query \in Started(call[c].browser)' \ disturbed'
            => call[c].query \in Started(call[c].browser) \ disturbed
      BY <1>3, <2>2 DEF Login
    <2> QED
      BY <2>1, <2>3, <2>4, <2>5 DEF RequestOK, StateMatches, Own
  <1>5. CookiesOwn'
    <2>1. answered' = answered /\ answered \subseteq 1..logins /\ f \notin answered
      BY <1>0 DEF IInv, CookiesOwn, Login
    <2>2. (answered \subseteq 1..logins)'
      BY <1>0, <2>1 DEF Login
    <2>3. ASSUME NEW x \in Browsers
          PROVE  (jar[x].state \in Own(x) /\ jar[x].nonce \in Own(x) /\ jar[x].state \notin answered)'
      BY <1>1, <1>3, <2>1 DEF IInv, CookiesOwn, Own
    <2> QED
      BY <2>2, <2>3 DEF CookiesOwn
  <1>6. Undisturbed'
    <2> SUFFICES ASSUME NEW g \in (1..logins)' \ disturbed'
                 PROVE  jar'[owner[g]].state = g /\ jar'[owner[g]].nonce = g
      BY DEF Undisturbed, Login
    <2>1. CASE g = f
      BY <1>0, <1>1, <2>1
    <2>2. CASE g # f
      <3>1. g \in (1..logins) \ disturbed /\ g \notin Started(b)
        BY <1>0, <2>2 DEF Login
      <3>2. owner[g] # b /\ owner[g] \in Browsers
        BY <1>0, <3>1 DEF Started, TypeOK, Flows, Maybe
      <3> QED
        BY <1>1, <3>1, <3>2 DEF IInv, Undisturbed
    <2> QED
      BY <2>1, <2>2
  <1>7. SessionOwn'
    BY <1>1, <1>3 DEF IInv, SessionOwn, ValidateToken, ValidToken
  <1> QED
    BY <1>2, <1>4, <1>5, <1>6, <1>7 DEF IInv

\* An answer, a logout or an eviction: the browser keeps or loses each flow
\* cookie and keeps, loses or gets a session of its own.
LEMMA JarStep ==
    ASSUME IInv, NEW b \in Browsers,
           NEW k \in [state : Maybe, nonce : Maybe, id_token : Tokens],
           k.state \in {0, jar[b].state}, k.nonce \in {0, jar[b].nonce},
           ValidateToken(k) => k.id_token.nonce \in Started(b),
           jar' = [jar EXCEPT ![b] = k], UNCHANGED <<logins, owner>>,
           \/ disturbed' = disturbed \cup Started(b)
           \/ disturbed' = disturbed /\ k.state = jar[b].state /\ k.nonce = jar[b].nonce,
           TypeOK', RequestsOK', answered' \subseteq answered \cup Started(b),
           answered' # answered => k.state = 0
    PROVE  IInv'
  <1> USE LoginFlowAssumption
  <1>0. TypeOK
    BY DEF IInv
  <1>1. jar'[b] = k /\ \A x \in Browsers \ {b} : jar'[x] = jar[x]
    BY <1>0 DEF TypeOK
  <1>2. \A x \in Browsers : Started(x)' = Started(x) /\ Own(x)' = Own(x)
    BY DEF Started, Own
  <1>3. CookiesOwn'
    <2>1. (answered \subseteq 1..logins)' /\ 0 \notin answered'
      BY DEF IInv, CookiesOwn, Started
    <2>2. ASSUME NEW x \in Browsers
          PROVE  jar'[x].state \in Own(x) /\ jar'[x].nonce \in Own(x)
      BY <1>1 DEF IInv, CookiesOwn, Own
    <2>3. jar'[b].state \notin answered'
      BY <1>1, <2>1 DEF IInv, CookiesOwn
    <2>4. ASSUME NEW x \in Browsers \ {b}
          PROVE  jar'[x].state \notin answered'
      <3>1. jar[x].state \in Own(x) /\ jar[x].state \notin answered
        BY DEF IInv, CookiesOwn
      <3>2. jar[x].state \notin Started(b) \/ jar[x].state = 0
        BY <3>1 DEF Own, Started
      <3> QED
        BY <1>1, <2>1, <3>1, <3>2
    <2> QED
      BY <1>2, <2>1, <2>2, <2>3, <2>4 DEF CookiesOwn
  <1>4. Undisturbed'
    <2> SUFFICES ASSUME NEW g \in (1..logins) \ disturbed'
                 PROVE  jar'[owner[g]].state = g /\ jar'[owner[g]].nonce = g
      BY DEF Undisturbed
    <2>1. owner[g] \in Browsers
      BY <1>0 DEF TypeOK, Flows, Maybe
    <2>2. g \notin disturbed /\ jar[owner[g]].state = g /\ jar[owner[g]].nonce = g
      BY DEF IInv, Undisturbed
    <2>3. owner[g] = b => k.state = jar[b].state /\ k.nonce = jar[b].nonce
      BY <2>2 DEF Started
    <2> QED
      BY <1>1, <2>1, <2>2, <2>3
  <1>5. SessionOwn'
    <2> SUFFICES ASSUME NEW x \in Browsers, ValidateToken(jar'[x])
                 PROVE  jar'[x].id_token.nonce \in Started(x)
      BY <1>2 DEF SessionOwn, ValidateToken, ValidToken
    <2> QED
      BY <1>1 DEF IInv, SessionOwn
  <1> QED
    BY <1>3, <1>4, <1>5 DEF IInv

\* The answer to a callback arrives: its cookies reach the jar.
LEMMA RespondStep ==
    ASSUME IInv, NEW c \in Calls, Respond(c)
    PROVE  IInv'
  <1> USE LoginFlowAssumption
  <1> DEFINE r == call[c]
             b == call[c].browser
             k == Answer(jar[b], r)
  <1>0. TypeOK /\ RequestOK(r)
    BY DEF IInv, RequestsOK
  <1>1. r \in Requests /\ r.pc \in {"limited", "refused", "accepted"}
    BY <1>0, Busy DEF Respond
  <1>2. /\ b \in Browsers /\ r.query \in Flows /\ r.query \in 1..logins
        /\ r.token \in Tokens /\ r.nonce \in Own(b)
        /\ r.pc = "accepted" => r.token.nonce = r.nonce /\ r.nonce # 0
    BY <1>0, <1>1 DEF Requests, RequestOK
  <1>3. jar[b] \in [state : Maybe, nonce : Maybe, id_token : Tokens]
    BY <1>0, <1>2 DEF TypeOK
  <1>4. /\ k \in [state : Maybe, nonce : Maybe, id_token : Tokens]
        /\ k.state = IF r.pc = "limited" THEN jar[b].state ELSE 0
        /\ k.nonce = IF r.pc = "limited" THEN jar[b].nonce ELSE 0
        /\ k.id_token = IF r.pc = "accepted" THEN r.token ELSE jar[b].id_token
    <2>1. 0 \in Maybe
      BY DEF Maybe
    <2> DEFINE e == ClearFlowCookies(jar[b])
    <2>2. /\ e \in [state : Maybe, nonce : Maybe, id_token : Tokens]
          /\ e.state = 0 /\ e.nonce = 0 /\ e.id_token = jar[b].id_token
      BY <1>3, <2>1 DEF ClearFlowCookies
    <2> HIDE DEF e
    <2>3. k = IF r.pc = "limited" THEN jar[b]
              ELSE IF r.pc = "accepted" THEN [e EXCEPT !.id_token = r.token] ELSE e
      BY DEF Answer, e
    <2> QED
      BY <1>1, <1>2, <1>3, <2>2, <2>3
  <1>5. /\ jar' = [jar EXCEPT ![b] = k] /\ call' = [call EXCEPT ![c] = Idle]
        /\ UNCHANGED <<logins, owner>>
        /\ disturbed' = IF r.pc # "limited" THEN disturbed \cup Started(b) ELSE disturbed
        /\ answered' = IF r.pc # "limited" /\ owner[r.query] = b
                         THEN answered \cup {r.query} ELSE answered
    BY DEF Respond
  <1> HIDE DEF k
  <1>6. ValidateToken(k) => k.id_token.nonce \in Started(b)
    <2>1. CASE r.pc = "accepted"
      BY <1>2, <1>4, <2>1 DEF Own
    <2>2. CASE r.pc # "accepted"
      BY <1>2, <1>4, <2>2 DEF IInv, SessionOwn, ValidateToken
    <2> QED
      BY <2>1, <2>2
  <1>7. Started(b) \subseteq Flows /\ answered' \subseteq answered \cup Started(b)
    BY <1>0, <1>2, <1>5 DEF Started, TypeOK, Maybe, Flows
  <1>8. TypeOK'
    BY <1>0, <1>2, <1>4, <1>5, <1>7 DEF TypeOK
  <1>9. RequestsOK'
    <2> SUFFICES ASSUME NEW x \in Calls, call'[x].pc # "idle" PROVE RequestOK(call[x])'
      BY DEF RequestsOK, RequestOK
    <2>1. call'[x] = call[x]
      BY <1>0, <1>5 DEF TypeOK, Idle
    <2>2. RequestOK(call[x])
      BY DEF IInv, RequestsOK
    <2>3. disturbed \subseteq disturbed'
      BY <1>5
    <2> HIDE DEF r, b
    <2> QED
      BY <1>5, <2>1, <2>2, <2>3 DEF RequestOK, Own, Started, StateMatches
  <1>10. /\ \/ disturbed' = disturbed \cup Started(b)
            \/ disturbed' = disturbed /\ k.state = jar[b].state /\ k.nonce = jar[b].nonce
         /\ answered' # answered => k.state = 0
    BY <1>4, <1>5
  <1> QED
    BY <1>2, <1>4, <1>5, <1>6, <1>7, <1>8, <1>9, <1>10, JarStep

\* handleLogout, and a browser that forgets one cookie.
LEMMA ForgetStep ==
    ASSUME IInv, NEW b \in Browsers,
           Logout(b) \/ \E name \in {"state", "nonce", "id_token"} : DropCookie(b, name)
    PROVE  IInv'
  <1> USE LoginFlowAssumption
  <1> DEFINE T == [state : Maybe, nonce : Maybe, id_token : Tokens]
  <1>0. TypeOK /\ jar[b] \in T /\ 0 \in Maybe /\ NoToken \in Tokens
    BY DEF IInv, TypeOK, Maybe, Tokens, NoToken, Defects
  <1>1. Started(b) \subseteq Flows
    BY <1>0 DEF Started, TypeOK, Maybe, Flows
  <1>2. ASSUME call' = call, UNCHANGED <<logins, owner>>, disturbed \subseteq disturbed'
        PROVE  RequestsOK'
    <2> SUFFICES ASSUME NEW x \in Calls PROVE RequestOK(call[x])'
      BY DEF RequestsOK
    <2>1. RequestOK(call[x])
      BY DEF IInv, RequestsOK
    <2> QED
      BY <1>2, <2>1 DEF RequestOK, Own, Started, StateMatches
  <1>3. CASE \/ Logout(b) \/ DropCookie(b, "id_token")
    <2> DEFINE k == [jar[b] EXCEPT !.id_token = NoToken]
    <2>1. /\ jar' = [jar EXCEPT ![b] = k]
          /\ UNCHANGED <<logins, owner, call, answered, disturbed>>
      BY <1>3 DEF Logout, DropCookie
    <2>2. /\ k \in T /\ k.state = jar[b].state /\ k.nonce = jar[b].nonce
          /\ k.id_token = NoToken
      BY <1>0
    <2> HIDE DEF k
    <2>3. TypeOK' /\ RequestsOK'
      BY <1>0, <1>2, <2>1, <2>2 DEF TypeOK
    <2> QED
      BY <2>1, <2>2, <2>3, JarStep DEF ValidateToken
  <1>4. ASSUME NEW name \in {"state", "nonce"}, DropCookie(b, name)
        PROVE  IInv'
    <2> DEFINE k == [jar[b] EXCEPT ![name] = 0]
    <2>1. /\ jar' = [jar EXCEPT ![b] = k] /\ disturbed' = disturbed \cup Started(b)
          /\ UNCHANGED <<logins, owner, call, answered>>
      BY <1>4 DEF DropCookie
    <2>2. /\ k \in T /\ k.state \in {0, jar[b].state} /\ k.nonce \in {0, jar[b].nonce}
          /\ k.id_token = jar[b].id_token
      <3>1. CASE name = "state"
        BY <1>0, <3>1
      <3>2. CASE name = "nonce"
        BY <1>0, <3>2
      <3> QED
        BY <3>1, <3>2
    <2> HIDE DEF k
    <2>3. TypeOK' /\ RequestsOK'
      BY <1>0, <1>1, <1>2, <2>1, <2>2 DEF TypeOK
    <2>4. ValidateToken(k) => k.id_token.nonce \in Started(b)
      BY <2>2 DEF IInv, SessionOwn, ValidateToken
    <2> QED
      BY <2>1, <2>2, <2>3, <2>4, JarStep
  <1> QED
    BY <1>3, <1>4

\* The invariant is preserved by every step.
LEMMA NextIInv == IInv /\ [Next]_vars => IInv'
  <1> SUFFICES ASSUME IInv, [Next]_vars PROVE IInv'
    OBVIOUS
  <1>1. ASSUME NEW b \in Browsers, Login(b) PROVE IInv'
    BY <1>1, LoginStep
  <1>2. ASSUME NEW b \in Browsers,
               Logout(b) \/ \E name \in {"state", "nonce", "id_token"} : DropCookie(b, name)
        PROVE  IInv'
    BY <1>2, ForgetStep
  <1>3. ASSUME NEW c \in Calls, Respond(c) PROVE IInv'
    BY <1>3, RespondStep
  <1>4. ASSUME NEW c \in Calls,
               \/ \E b \in Browsers, f \in 1..logins : Callback(c, b, f)
               \/ Limited(c) \/ CheckState(c) \/ Exchange(c) \/ ExchangeFails(c) \/ Lost(c)
        PROVE  IInv'
    BY <1>4, HandlerSteps
  <1>5. CASE UNCHANGED vars
    <2>1. TypeOK' /\ CookiesOwn' /\ Undisturbed' /\ SessionOwn'
      BY <1>5 DEF IInv, vars, TypeOK, CookiesOwn, Own, Undisturbed, SessionOwn, Started,
                  ValidateToken, ValidToken
    <2>2. RequestsOK'
      BY <1>5 DEF IInv, vars, RequestsOK, RequestOK, Own, Started, StateMatches
    <2> QED
      BY <2>1, <2>2 DEF IInv
  <1> QED
    BY <1>1, <1>2, <1>3, <1>4, <1>5 DEF Next

\* The combined invariant holds in every reachable state.
THEOREM Invariance == Spec => []IInv
  BY InitIInv, NextIInv, PTL DEF Spec

\* The token that lets a browser in comes from a login started in it, for any
\* number of browsers, tabs, logins and overlapping callbacks.
THEOREM SessionOwnThm == Spec => []SessionOwn
  <1>1. IInv => SessionOwn
    BY DEF IInv
  <1> QED
    BY <1>1, Invariance, PTL

\* Codes are exchanged only for logins of the browser that brings them.
THEOREM ExchangeOwnThm == Spec => []ExchangeOwn
  <1>1. IInv => ExchangeOwn
    <2> SUFFICES ASSUME IInv, NEW c \in Calls, call[c].pc = "exchange"
                 PROVE  call[c].query \in Started(call[c].browser)
      BY DEF ExchangeOwn
    <2> QED
      BY DEF IInv, RequestsOK, RequestOK, StateMatches, Own
  <1> QED
    BY <1>1, Invariance, PTL

\* An answered login is never exchanged again.
THEOREM NoReplayThm == Spec => []NoReplay
  <1>1. IInv => NoReplay
    BY DEF IInv, NoReplay, RequestsOK, RequestOK, StateMatches
  <1> QED
    BY <1>1, Invariance, PTL

\* Only an overlap takes a login's cookies away from its callback.
THEOREM OnlyOverlapRefusesThm == Spec => []OnlyOverlapRefuses
  <1>1. IInv => OnlyOverlapRefuses
    BY DEF IInv, OnlyOverlapRefuses, RequestsOK, RequestOK
  <1> QED
    BY <1>1, Invariance, PTL
-----------------------------------------------------------------------------
(* Liveness.                                                                *)

Checking(c) == call[c].pc = "check"
Exchanging(c) == call[c].pc = "exchange"
Decided(c) == call[c].pc \in {"limited", "refused", "accepted"}
Free(c) == call[c].pc = "idle"

\* What steps can do to a callback: it goes forward, and steps of others
\* leave it where it is.
LEMMA CallSteps ==
    ASSUME TypeOK, [Next]_vars, NEW c \in Calls
    PROVE  /\ Checking(c) => Checking(c)' \/ Exchanging(c)' \/ Decided(c)' \/ Free(c)'
           /\ Exchanging(c) => Exchanging(c)' \/ Decided(c)' \/ Free(c)'
           /\ Decided(c) => Decided(c)' \/ Free(c)'
  <1> USE DEF TypeOK, Checking, Exchanging, Decided, Free
  <1>1. CASE UNCHANGED call
    BY <1>1
  <1>2. ASSUME NEW d \in Calls, NEW b \in Browsers, NEW f \in 1..logins, Callback(d, b, f)
        PROVE  UNCHANGED call[c] \/ Free(c)
    BY <1>2 DEF Callback
  <1>3. ASSUME NEW d \in Calls, Limited(d) \/ CheckState(d)
        PROVE  UNCHANGED call[c] \/ (Checking(c) /\ (Exchanging(c)' \/ Decided(c)'))
    <2>1. CASE d # c
      BY <1>3, <2>1 DEF Limited, CheckState
    <2>2. CASE d = c
      <3>1. call[c] \in Requests
        BY <1>3, <2>2, Busy DEF Limited, CheckState
      <3> QED
        BY <1>3, <2>2, <3>1 DEF Limited, CheckState, Requests
    <2> QED
      BY <2>1, <2>2
  <1>4. ASSUME NEW d \in Calls, Exchange(d) \/ ExchangeFails(d)
        PROVE  UNCHANGED call[c] \/ (Exchanging(c) /\ Decided(c)')
    <2>1. CASE d # c
      BY <1>4, <2>1 DEF Exchange, ExchangeFails
    <2>2. CASE d = c
      <3>1. call[c] \in Requests /\ Exchanging(c)
        BY <1>4, <2>2, Busy DEF Exchange, ExchangeFails, TimesOut
      <3>2. CASE Exchange(c)
        <4>1. PICK r \in {[call[c] EXCEPT !.pc = "refused"]}
                   \cup {[call[c] EXCEPT !.pc = "accepted", !.token = t] : t \in [nonce : 0..logins, defect : Defects]} :
                call' = [call EXCEPT ![c] = r]
          BY <3>2 DEF Exchange
        <4>2. r.pc \in {"refused", "accepted"}
          BY <3>1 DEF Requests
        <4> QED
          BY <3>1, <4>1, <4>2
      <3>3. CASE ExchangeFails(c)
        BY <3>1, <3>3 DEF ExchangeFails, Requests
      <3> QED
        BY <1>4, <2>2, <3>2, <3>3
    <2> QED
      BY <2>1, <2>2
  <1>5. ASSUME NEW d \in Calls, Respond(d) \/ Lost(d)
        PROVE  UNCHANGED call[c] \/ Free(c)'
    BY <1>5 DEF Respond, Lost, Idle
  <1>6. ASSUME NEW b \in Browsers,
               \/ Login(b) \/ Logout(b)
               \/ \E name \in {"state", "nonce", "id_token"} : DropCookie(b, name)
        PROVE  UNCHANGED call
    BY <1>6 DEF Login, Logout, DropCookie
  <1>7. \/ UNCHANGED call[c]
        \/ Free(c) \/ Free(c)'
        \/ Checking(c) /\ (Exchanging(c)' \/ Decided(c)')
        \/ Exchanging(c) /\ Decided(c)'
    <2> HIDE DEF TypeOK, Checking, Exchanging, Decided, Free
    <2> QED
      BY <1>1, <1>2, <1>3, <1>4, <1>5, <1>6 DEF Next, vars
  <1> QED
    BY <1>7

\* The steps of the handler itself take it on.
LEMMA CallProgress ==
    ASSUME TypeOK, NEW c \in Calls
    PROVE  /\ Checking(c) /\ CheckState(c) => Exchanging(c)' \/ Decided(c)'
           /\ Exchanging(c) /\ ExchangeFails(c) => Decided(c)'
           /\ Decided(c) /\ Respond(c) => Free(c)'
  <1>1. Checking(c) \/ Exchanging(c) => call[c] \in Requests
    BY Busy DEF Checking, Exchanging
  <1>2. Checking(c) /\ CheckState(c) => Exchanging(c)' \/ Decided(c)'
    BY <1>1 DEF TypeOK, Checking, Exchanging, Decided, CheckState, Requests
  <1>3. Exchanging(c) /\ ExchangeFails(c) => Decided(c)'
    BY <1>1 DEF TypeOK, Exchanging, Decided, ExchangeFails, Requests
  <1>4. Respond(c) => Free(c)'
    BY DEF TypeOK, Free, Respond, Idle
  <1> QED
    BY <1>2, <1>3, <1>4

\* Every callback comes to an end, however many are under way, although the
\* identity provider may never answer: the handler's own steps, the timeout
\* among them, are all that is relied on (handleCallback).
THEOREM AnsweredThm == FairSpec /\ []HandlersCanRun => Answered
  <1> SUFFICES ASSUME NEW c \in Calls
               PROVE  FairSpec /\ []HandlersCanRun => (call[c].pc # "idle" ~> call[c].pc = "idle")
    BY DEF Answered
  <1>1. Fairness => CallFairness(c)
    BY DEF Fairness
  <1>2. HandlersCanRun =>
          /\ Checking(c) => ENABLED <<CheckState(c)>>_vars
          /\ Exchanging(c) => ENABLED <<ExchangeFails(c)>>_vars
          /\ Decided(c) => ENABLED <<Respond(c)>>_vars
    BY DEF HandlersCanRun, Checking, Exchanging, Decided
  <1>3. TypeOK /\ [Next]_vars =>
          /\ Checking(c) => Checking(c)' \/ Exchanging(c)' \/ Decided(c)' \/ Free(c)'
          /\ Exchanging(c) => Exchanging(c)' \/ Decided(c)' \/ Free(c)'
          /\ Decided(c) => Decided(c)' \/ Free(c)'
    BY CallSteps
  <1>4. TypeOK =>
          /\ Checking(c) /\ <<CheckState(c)>>_vars => Exchanging(c)' \/ Decided(c)'
          /\ Exchanging(c) /\ <<ExchangeFails(c)>>_vars => Decided(c)'
          /\ Decided(c) /\ <<Respond(c)>>_vars => Free(c)'
    BY CallProgress
  <1>5. /\ TypeOK /\ call[c].pc # "idle" => Checking(c) \/ Exchanging(c) \/ Decided(c)
        /\ Free(c) => call[c].pc = "idle"
    BY Busy DEF Checking, Exchanging, Decided, Free, Requests
  <1>6. IInv => TypeOK
    BY DEF IInv
  <1> QED
    BY <1>1, <1>2, <1>3, <1>4, <1>5, <1>6, Invariance, PTL DEF FairSpec, Spec, CallFairness
=============================================================================
