----------------------------- MODULE AuthProofs -----------------------------
(***************************************************************************)
(* Theorems about sessions: those about Sessions for any calls, users,     *)
(* addresses and token pairs; those about SdkClient, which composes it     *)
(* with a client, for any number of calls on that client.                  *)
(***************************************************************************)
EXTENDS SdkClient, FiniteSetTheorems, TLAPS

(* A handler serves the kind of call it is for; the answer comes last.     *)
Routed ==
  \A c \in Call :
    /\ pc[c] = "idle" <=> op[c] = NoCall
    /\ pc[c] = "done" <=> code[c] # "none"
    /\ pc[c] = "findUser" => op[c].kind \in {"register", "login"}
    /\ pc[c] = "insertUser" => op[c].kind = "register"
    /\ pc[c] \in {"findToken", "revoke"} => op[c].kind = "refresh"
    /\ pc[c] = "issue" => op[c].kind \in {"login", "refresh"}
    /\ pc[c] = "verify" => op[c].kind = "use"
    /\ pc[c] \in {"revoke", "issue"} /\ op[c].kind = "refresh" => op[c].token \in Token
    /\ code[c] = "409" => op[c].kind = "register"
    /\ granted[c] # NoToken <=> code[c] = "ok" /\ op[c].kind \in {"login", "refresh"}
    /\ granted[c] # NoToken /\ op[c].kind = "refresh" => op[c].token \in Token

(* Whatever was presented had been handed out, and is handed out once.     *)
Handed ==
  /\ \A t \in Issued : token[t] # "unused"
  /\ \A c \in Call : granted[c] # NoToken => token[granted[c]] # "unused" /\ granted[c] \notin Issued
  /\ \A c \in Call : op[c].kind \in {"refresh", "use"} /\ op[c].token \in Token =>
       token[op[c].token] # "unused"
  /\ \A c, d \in Call : granted[c] # NoToken /\ granted[c] = granted[d] => c = d

(* A session is its user's.                                                *)
Owned ==
  \A c \in Call : granted[c] # NoToken =>
    owner[granted[c]] = IF op[c].kind = "login" THEN Subject(c) ELSE owner[op[c].token]

(* A password, once chosen, stays; a login has seen its user's hash.       *)
Chosen ==
  /\ \A c \in Call : op[c].kind = "register" /\ code[c] = "ok" =>
       password[Subject(c)] = Hash[op[c].password]
  /\ \A c \in Call : op[c].kind = "login" /\ (pc[c] = "issue" \/ code[c] = "ok") =>
       password[Subject(c)] = Hash[op[c].password]
  /\ \A c, d \in Call :
       /\ op[c].kind = "register" /\ code[c] = "ok"
       /\ op[d].kind = "register" /\ code[d] = "ok"
       /\ Subject(c) = Subject(d)
       => c = d

(* A token that is being exchanged, or has been, is revoked for good, and  *)
(* only such tokens are.                                                   *)
Rotated ==
  /\ \A c \in Call : op[c].kind = "refresh" /\ (pc[c] = "issue" \/ granted[c] # NoToken) =>
       token[op[c].token] = "revoked"
  /\ \A c \in stale : /\ op[c].kind = "refresh" /\ op[c].token \in Token
                      /\ token[op[c].token] = "revoked"
                      /\ pc[c] \in {"findToken", "done"}
                      /\ code[c] \in {"none", "401", "500", "lost"}
  /\ NoSessionLostQuietly

ServerInv == SessionsTypeOK /\ Routed /\ Handed /\ Owned /\ Chosen /\ Rotated

-----------------------------------------------------------------------------
(* A registration or a login names an address and a password. *)
LEMMA AskedFacts ==
  ASSUME SessionsTypeOK, NEW c \in Call, op[c].kind \in {"register", "login"}
  PROVE  op[c].password \in Password /\ Hash[op[c].password] \in Password /\ Subject(c) \in User
  <1>1. op[c] \in Workload
    BY DEF SessionsTypeOK, NoCall
  <1>2. op[c].address \in Address /\ op[c].password \in Password
    BY <1>1, SessionsAssumption
  <1> QED BY <1>2, SessionsAssumption DEF Subject

(* The state keeps its type.                                               *)
LEMMA TypeKept ==
  ASSUME ServerInv, [SessionsNext]_server
  PROVE  SessionsTypeOK'
  <1> USE SessionsAssumption DEF ServerInv, SessionsTypeOK,
          Handling, NoCall, Goto, Respond, answers,
          tokens, Entry, Presenting, Held, Subject
  <1>1. ASSUME NEW c \in Call, NEW o \in Workload \union Presenting, Receive(c, o)
        PROVE  SessionsTypeOK'
    BY <1>1 DEF Receive
  <1>2. ASSUME NEW c \in Call, FindUser(c)
        PROVE  SessionsTypeOK'
    BY <1>2 DEF FindUser
  <1>3. ASSUME NEW c \in Call, InsertUser(c)
        PROVE  SessionsTypeOK'
    <2>1. Hash[op[c].password] \in Password /\ Subject(c) \in User
      BY <1>3, AskedFacts DEF Routed, InsertUser
    <2> QED BY <1>3, <2>1 DEF InsertUser
  <1>4. ASSUME NEW c \in Call, FindToken(c)
        PROVE  SessionsTypeOK'
    BY <1>4 DEF FindToken
  <1>5. ASSUME NEW c \in Call, Revoke(c)
        PROVE  SessionsTypeOK'
    BY <1>5 DEF Revoke
  <1>6. ASSUME NEW c \in Call, Issue(c)
        PROVE  SessionsTypeOK'
    <2>1. PICK t \in Token :
            /\ token' = [token EXCEPT ![t] = "active"]
            /\ owner' = [owner EXCEPT ![t] =
                           IF op[c].kind = "login" THEN Subject(c) ELSE owner[op[c].token]]
            /\ fresh' = fresh \union {t}
            /\ granted' = [granted EXCEPT ![c] = t]
      BY <1>6 DEF Issue
    <2>2. pc[c] = "issue" /\ pc' = [pc EXCEPT ![c] = "done"] /\ code' = [code EXCEPT ![c] = "ok"]
          /\ UNCHANGED <<op, password, stale, crashes>>
      BY <1>6 DEF Issue
    <2>3. CASE op[c].kind = "login"
      <3>1. Subject(c) \in User
        BY <2>3, AskedFacts
      <3> QED BY <2>1, <2>2, <2>3, <3>1
    <2>4. CASE op[c].kind # "login"
      <3>1. op[c].token \in Token
        BY <2>2, <2>4 DEF Routed
      <3> QED BY <2>1, <2>2, <2>4, <3>1
    <2> QED BY <2>3, <2>4
  <1>7. ASSUME NEW c \in Call, Verify(c)
        PROVE  SessionsTypeOK'
    BY <1>7 DEF Verify
  <1>8. ASSUME NEW c \in Call, QueryFails(c)
        PROVE  SessionsTypeOK'
    BY <1>8 DEF QueryFails
  <1>9. ASSUME NEW t \in Token, AccessExpires(t)
        PROVE  SessionsTypeOK'
    BY <1>9 DEF AccessExpires
  <1>10. ASSUME NEW t \in Token, RefreshExpires(t)
        PROVE  SessionsTypeOK'
    BY <1>10 DEF RefreshExpires
  <1>11. ASSUME Crash
        PROVE  SessionsTypeOK'
    BY <1>11 DEF Crash
  <1>12. CASE UNCHANGED server
    BY <1>12 DEF server
  <1> QED
    BY <1>1, <1>2, <1>3, <1>4, <1>5, <1>6, <1>7, <1>8, <1>9, <1>10, <1>11, <1>12
       DEF SessionsNext, Handle, Time

(* Handlers serve their kind of call and answer last.                      *)
LEMMA RouteKept ==
  ASSUME ServerInv, [SessionsNext]_server
  PROVE  Routed'
  <1> USE SessionsAssumption DEF ServerInv, SessionsTypeOK,
          Routed, Handling, NoCall, Goto, Respond,
          answers, tokens, Entry, Presenting, Held,
          Subject
  <1>1. ASSUME NEW c \in Call, NEW o \in Workload \union Presenting, Receive(c, o)
        PROVE  Routed'
    BY <1>1 DEF Receive
  <1>2. ASSUME NEW c \in Call, FindUser(c)
        PROVE  Routed'
    BY <1>2 DEF FindUser
  <1>3. ASSUME NEW c \in Call, InsertUser(c)
        PROVE  Routed'
    BY <1>3 DEF InsertUser
  <1>4. ASSUME NEW c \in Call, FindToken(c)
        PROVE  Routed'
    BY <1>4 DEF FindToken
  <1>5. ASSUME NEW c \in Call, Revoke(c)
        PROVE  Routed'
    BY <1>5 DEF Revoke
  <1>6. ASSUME NEW c \in Call, Issue(c)
        PROVE  Routed'
    BY <1>6 DEF Issue
  <1>7. ASSUME NEW c \in Call, Verify(c)
        PROVE  Routed'
    BY <1>7 DEF Verify
  <1>8. ASSUME NEW c \in Call, QueryFails(c)
        PROVE  Routed'
    BY <1>8 DEF QueryFails
  <1>9. ASSUME NEW t \in Token, AccessExpires(t)
        PROVE  Routed'
    BY <1>9 DEF AccessExpires
  <1>10. ASSUME NEW t \in Token, RefreshExpires(t)
        PROVE  Routed'
    BY <1>10 DEF RefreshExpires
  <1>11. ASSUME Crash
        PROVE  Routed'
    BY <1>11 DEF Crash
  <1>12. CASE UNCHANGED server
    BY <1>12 DEF server
  <1> QED
    BY <1>1, <1>2, <1>3, <1>4, <1>5, <1>6, <1>7, <1>8, <1>9, <1>10, <1>11, <1>12
       DEF SessionsNext, Handle, Time

(* No token pair is handed out twice: a new one has never been used.       *)
LEMMA HandedKept ==
  ASSUME ServerInv, [SessionsNext]_server
  PROVE  Handed'
  <1> USE SessionsAssumption DEF ServerInv, SessionsTypeOK,
          Handed, Routed, Handling, NoCall, Goto, Respond,
          answers, tokens, Presenting, Held,
          Subject
  <1>1. ASSUME NEW c \in Call, NEW o \in Workload \union Presenting, Receive(c, o)
        PROVE  Handed'
    BY <1>1 DEF Receive
  <1>2. ASSUME NEW c \in Call, FindUser(c)
        PROVE  Handed'
    BY <1>2 DEF FindUser
  <1>3. ASSUME NEW c \in Call, InsertUser(c)
        PROVE  Handed'
    BY <1>3 DEF InsertUser
  <1>4. ASSUME NEW c \in Call, FindToken(c)
        PROVE  Handed'
    BY <1>4 DEF FindToken
  <1>5. ASSUME NEW c \in Call, Revoke(c)
        PROVE  Handed'
    BY <1>5 DEF Revoke
  <1>6. ASSUME NEW c \in Call, Issue(c)
        PROVE  Handed'
    BY <1>6 DEF Issue
  <1>7. ASSUME NEW c \in Call, Verify(c)
        PROVE  Handed'
    BY <1>7 DEF Verify
  <1>8. ASSUME NEW c \in Call, QueryFails(c)
        PROVE  Handed'
    BY <1>8 DEF QueryFails
  <1>9. ASSUME NEW t \in Token, AccessExpires(t)
        PROVE  Handed'
    BY <1>9 DEF AccessExpires
  <1>10. ASSUME NEW t \in Token, RefreshExpires(t)
        PROVE  Handed'
    BY <1>10 DEF RefreshExpires
  <1>11. ASSUME Crash
        PROVE  Handed'
    BY <1>11 DEF Crash
  <1>12. CASE UNCHANGED server
    BY <1>12 DEF server
  <1> QED
    BY <1>1, <1>2, <1>3, <1>4, <1>5, <1>6, <1>7, <1>8, <1>9, <1>10, <1>11, <1>12
       DEF SessionsNext, Handle, Time

(* No handed out token pair changes hands.                                 *)
LEMMA OwnerKept ==
  ASSUME ServerInv, [SessionsNext]_server
  PROVE  Owned'
  <1> USE SessionsAssumption DEF ServerInv, SessionsTypeOK,
          Owned, Handed, Routed, Handling, NoCall, Goto,
          Respond, answers, tokens, Subject
  <1>1. ASSUME NEW c \in Call, NEW o \in Workload \union Presenting, Receive(c, o)
        PROVE  Owned'
    BY <1>1 DEF Receive
  <1>2. ASSUME NEW c \in Call, FindUser(c)
        PROVE  Owned'
    BY <1>2 DEF FindUser
  <1>3. ASSUME NEW c \in Call, InsertUser(c)
        PROVE  Owned'
    BY <1>3 DEF InsertUser
  <1>4. ASSUME NEW c \in Call, FindToken(c)
        PROVE  Owned'
    BY <1>4 DEF FindToken
  <1>5. ASSUME NEW c \in Call, Revoke(c)
        PROVE  Owned'
    BY <1>5 DEF Revoke
  <1>6. ASSUME NEW c \in Call, Issue(c)
        PROVE  Owned'
    BY <1>6 DEF Issue
  <1>7. ASSUME NEW c \in Call, Verify(c)
        PROVE  Owned'
    BY <1>7 DEF Verify
  <1>8. ASSUME NEW c \in Call, QueryFails(c)
        PROVE  Owned'
    BY <1>8 DEF QueryFails
  <1>9. ASSUME NEW t \in Token, AccessExpires(t)
        PROVE  Owned'
    BY <1>9 DEF AccessExpires
  <1>10. ASSUME NEW t \in Token, RefreshExpires(t)
        PROVE  Owned'
    BY <1>10 DEF RefreshExpires
  <1>11. ASSUME Crash
        PROVE  Owned'
    BY <1>11 DEF Crash
  <1>12. CASE UNCHANGED server
    BY <1>12 DEF server
  <1> QED
    BY <1>1, <1>2, <1>3, <1>4, <1>5, <1>6, <1>7, <1>8, <1>9, <1>10, <1>11, <1>12
       DEF SessionsNext, Handle, Time

(* The unique index: the second of two registrations inserts nothing.      *)
LEMMA ChoiceKept ==
  ASSUME ServerInv, [SessionsNext]_server
  PROVE  Chosen'
  <1> USE SessionsAssumption DEF ServerInv, SessionsTypeOK,
          Chosen, Routed, Handling, NoCall, Goto, Respond,
          answers, tokens, Subject
  <1>1. ASSUME NEW c \in Call, NEW o \in Workload \union Presenting, Receive(c, o)
        PROVE  Chosen'
    <2>1. pc[c] = "idle" /\ code[c] = "none" /\ op' = [op EXCEPT ![c] = o] /\ UNCHANGED <<code, password>>
      BY <1>1 DEF Receive
    <2>2. pc' = [pc EXCEPT ![c] = Entry(o)] /\ Entry(o) # "issue"
      BY <1>1 DEF Receive, Entry
    <2>3. \A d \in Call : code[d] = "ok" \/ pc'[d] = "issue" => d # c /\ op'[d] = op[d] /\ pc'[d] = pc[d]
      BY <2>1, <2>2
    <2> QED BY <2>1, <2>3
  <1>2. ASSUME NEW c \in Call, FindUser(c)
        PROVE  Chosen'
    BY <1>2 DEF FindUser
  <1>3. ASSUME NEW c \in Call, InsertUser(c)
        PROVE  Chosen'
    <2>1. /\ op[c].kind = "register" /\ Hash[op[c].password] \in Password /\ Subject(c) \in User
          /\ UNCHANGED op /\ pc' = [pc EXCEPT ![c] = "done"]
      BY <1>3, AskedFacts DEF InsertUser
    <2>2. CASE password[Subject(c)] # NoPassword
      BY <1>3, <2>1, <2>2 DEF InsertUser
    <2>3. CASE password[Subject(c)] = NoPassword
      <3>1. /\ code' = [code EXCEPT ![c] = "ok"]
            /\ password' = [password EXCEPT ![Subject(c)] = Hash[op[c].password]]
        BY <1>3, <2>3 DEF InsertUser
      <3>2. \A d \in Call :
              (op[d].kind = "register" /\ code[d] = "ok") \/ (op[d].kind = "login" /\ (pc[d] = "issue" \/ code[d] = "ok"))
              => Subject(d) # Subject(c)
        <4>1. ASSUME NEW d \in Call, op[d].kind \in {"register", "login"}
              PROVE  Hash[op[d].password] # NoPassword
          BY <4>1, AskedFacts
        <4> QED BY <2>3, <4>1
      <3> QED BY <2>1, <3>1, <3>2
    <2> QED BY <2>2, <2>3
  <1>4. ASSUME NEW c \in Call, FindToken(c)
        PROVE  Chosen'
    BY <1>4 DEF FindToken
  <1>5. ASSUME NEW c \in Call, Revoke(c)
        PROVE  Chosen'
    BY <1>5 DEF Revoke
  <1>6. ASSUME NEW c \in Call, Issue(c)
        PROVE  Chosen'
    BY <1>6 DEF Issue
  <1>7. ASSUME NEW c \in Call, Verify(c)
        PROVE  Chosen'
    BY <1>7 DEF Verify
  <1>8. ASSUME NEW c \in Call, QueryFails(c)
        PROVE  Chosen'
    BY <1>8 DEF QueryFails
  <1>9. ASSUME NEW t \in Token, AccessExpires(t)
        PROVE  Chosen'
    BY <1>9 DEF AccessExpires
  <1>10. ASSUME NEW t \in Token, RefreshExpires(t)
        PROVE  Chosen'
    BY <1>10 DEF RefreshExpires
  <1>11. ASSUME Crash
        PROVE  Chosen'
    BY <1>11 DEF Crash
  <1>12. CASE UNCHANGED server
    BY <1>12 DEF server
  <1> QED
    BY <1>1, <1>2, <1>3, <1>4, <1>5, <1>6, <1>7, <1>8, <1>9, <1>10, <1>11, <1>12
       DEF SessionsNext, Handle, Time

(* A revoked token stays revoked, whoever presents it.                     *)
LEMMA RotationKept ==
  ASSUME ServerInv, [SessionsNext]_server
  PROVE  Rotated'
  <1> USE SessionsAssumption DEF ServerInv, SessionsTypeOK,
          Rotated, Handed, Routed, Handling, NoCall, Goto,
          Respond, answers, tokens, NoSessionLostQuietly,
          KnownRotated
  <1>1. ASSUME NEW c \in Call, NEW o \in Workload \union Presenting, Receive(c, o)
        PROVE  Rotated'
    <2>1. /\ pc[c] = "idle" /\ code[c] = "none" /\ granted[c] = NoToken
          /\ op' = [op EXCEPT ![c] = o] /\ UNCHANGED <<code, granted, token>>
          /\ pc' = [pc EXCEPT ![c] = Entry(o)] /\ Entry(o) # "issue"
      BY <1>1 DEF Receive, Entry
    <2>2. \A d \in Call \ {c} : op'[d] = op[d] /\ pc'[d] = pc[d]
      BY <2>1
    <2>3. op'[c] = o /\ pc'[c] = Entry(o)
      BY <2>1
    <2>4. ASSUME NEW d \in Call, op'[d].kind = "refresh", pc'[d] = "issue" \/ granted'[d] # NoToken
          PROVE  token'[op'[d].token] = "revoked"
      BY <2>1, <2>2, <2>3, <2>4
    <2>5. ASSUME NEW d \in stale'
          PROVE  /\ op'[d].kind = "refresh" /\ op'[d].token \in Token /\ token'[op'[d].token] = "revoked"
                 /\ pc'[d] \in {"findToken", "done"} /\ code'[d] \in {"none", "401", "500", "lost"}
      <3>1. CASE d \in stale
        <4>1. d \in Call /\ d # c
          BY <2>1, <3>1
        <4> QED BY <2>1, <2>2, <3>1, <4>1
      <3>2. CASE d \notin stale
        <4>1. d = c /\ o.kind = "refresh" /\ o.token \in KnownRotated
          BY <1>1, <2>5, <3>2 DEF Receive
        <4>2. PICK e \in Call : op[e].kind = "refresh" /\ code[e] = "ok" /\ o.token = op[e].token
          BY <4>1
        <4>3. granted[e] # NoToken /\ o.token \in Token /\ token[o.token] = "revoked"
          BY <4>2
        <4> QED BY <2>1, <2>3, <4>1, <4>3 DEF Entry
      <3> QED BY <3>1, <3>2
    <2>6. ASSUME NEW t \in Token, token'[t] = "revoked"
          PROVE  \E d \in Call :
                   /\ op'[d].kind = "refresh" /\ op'[d].token = t
                   /\ pc'[d] = "issue" \/ granted'[d] # NoToken \/ code'[d] \in {"500", "lost"}
      <3>1. PICK d \in Call :
              /\ op[d].kind = "refresh" /\ op[d].token = t
              /\ pc[d] = "issue" \/ granted[d] # NoToken \/ code[d] \in {"500", "lost"}
        BY <2>1, <2>6
      <3>2. d # c
        BY <2>1, <3>1
      <3> QED BY <2>1, <2>2, <3>1, <3>2
    <2> QED BY <2>4, <2>5, <2>6
  <1>2. ASSUME NEW c \in Call, FindUser(c)
        PROVE  Rotated'
    BY <1>2 DEF FindUser
  <1>3. ASSUME NEW c \in Call, InsertUser(c)
        PROVE  Rotated'
    BY <1>3 DEF InsertUser
  <1>4. ASSUME NEW c \in Call, FindToken(c)
        PROVE  Rotated'
    BY <1>4 DEF FindToken
  <1>5. ASSUME NEW c \in Call, Revoke(c)
        PROVE  Rotated'
    BY <1>5 DEF Revoke
  <1>6. ASSUME NEW c \in Call, Issue(c)
        PROVE  Rotated'
    BY <1>6 DEF Issue
  <1>7. ASSUME NEW c \in Call, Verify(c)
        PROVE  Rotated'
    BY <1>7 DEF Verify
  <1>8. ASSUME NEW c \in Call, QueryFails(c)
        PROVE  Rotated'
    BY <1>8 DEF QueryFails
  <1>9. ASSUME NEW t \in Token, AccessExpires(t)
        PROVE  Rotated'
    BY <1>9 DEF AccessExpires
  <1>10. ASSUME NEW t \in Token, RefreshExpires(t)
        PROVE  Rotated'
    BY <1>10 DEF RefreshExpires
  <1>11. ASSUME Crash
        PROVE  Rotated'
    BY <1>11 DEF Crash
  <1>12. CASE UNCHANGED server
    BY <1>12 DEF server
  <1> QED
    BY <1>1, <1>2, <1>3, <1>4, <1>5, <1>6, <1>7, <1>8, <1>9, <1>10, <1>11, <1>12
       DEF SessionsNext, Handle, Time

LEMMA ServerStep == ServerInv /\ [SessionsNext]_server => ServerInv'
  BY TypeKept, RouteKept, HandedKept, OwnerKept, ChoiceKept, RotationKept DEF ServerInv

LEMMA ServerStart == SessionsInit => ServerInv
  <1> SUFFICES ASSUME SessionsInit PROVE ServerInv
    OBVIOUS
  <1> USE SessionsAssumption DEF SessionsInit, NoCall
  <1>1. SessionsTypeOK
    BY DEF SessionsTypeOK
  <1>2. Routed /\ Handed
    BY DEF Routed, Handed
  <1>3. Owned /\ Chosen /\ Rotated
    BY DEF Owned, Chosen, Rotated, NoSessionLostQuietly
  <1> QED BY <1>1, <1>2, <1>3 DEF ServerInv

LEMMA ServerInvariant == SessionsSpec => []ServerInv
  BY ServerStart, ServerStep, PTL DEF SessionsSpec, server

(* Type correctness of the sessions. *)
THEOREM SessionsTypes == SessionsSpec => []SessionsTypeOK
  <1>1. ServerInv => SessionsTypeOK
    BY DEF ServerInv
  <1> QED BY <1>1, ServerInvariant, PTL

(* Of all registrations of an address, in whatever case it is typed, one   *)
(* at most succeeds, and whoever logs in has a password with its hash: for *)
(* any hash function, and any number of registrations and logins.          *)
THEOREM RegistrationIsDecided == SessionsSpec => []OneRegistrationWins
  <1>1. ServerInv => OneRegistrationWins
    <2> SUFFICES ASSUME ServerInv,
                        NEW c \in Call, op[c].kind = "register", code[c] = "ok",
                        NEW d \in Call, Subject(d) = Subject(c)
                 PROVE  /\ op[d].kind = "register" /\ code[d] = "ok" => d = c
                        /\ op[d].kind = "login" /\ code[d] = "ok" => Hash[op[d].password] = Hash[op[c].password]
      BY DEF OneRegistrationWins
    <2> QED BY DEF ServerInv, Chosen
  <1> QED BY <1>1, ServerInvariant, PTL

(* A refresh token that was exchanged is refused to every call sent after  *)
(* the answer.                                                             *)
THEOREM RotationIsFinal == SessionsSpec => []RotatedTokenRefused
  <1>1. ServerInv => RotatedTokenRefused
    BY DEF ServerInv, Rotated, RotatedTokenRefused
  <1> QED BY <1>1, ServerInvariant, PTL

(* A session belongs to who logged in, through any chain of refreshes, and *)
(* no two calls are answered the same token pair.                          *)
THEOREM SessionsKeepTheirUser == SessionsSpec => []SessionsStayPut
  <1>1. ServerInv => SessionsStayPut
    BY DEF ServerInv, Handed, Owned, SessionsStayPut
  <1> QED BY <1>1, ServerInvariant, PTL

(* A revoked token was exchanged, is being so, or its exchange failed half *)
(* way: no session ends by what other calls do.                            *)
THEOREM SessionsEndForAReason == SessionsSpec => []NoSessionLostQuietly
  <1>1. ServerInv => NoSessionLostQuietly
    BY DEF ServerInv, Rotated
  <1> QED BY <1>1, ServerInvariant, PTL

-----------------------------------------------------------------------------
(* What the server does leaves the questions alone and the answers given.  *)
LEMMA ServeFacts ==
  ASSUME ServerInv, Serve, NEW c \in Call
  PROVE  /\ op' = op /\ UNCHANGED client
         /\ pc'[c] = "idle" <=> pc[c] = "idle"
         /\ pc'[c] \in Handling => pc[c] \in Handling
         /\ code[c] # "none" => code'[c] = code[c] /\ granted'[c] = granted[c]
         /\ code'[c] # code[c] => pc[c] \in Handling
         /\ granted'[c] # granted[c] => granted'[c] \in Token /\ token[granted'[c]] = "unused"
  <1> USE DEF ServerInv, SessionsTypeOK, Routed, Handling, Goto, Respond,
          answers, tokens
  <1>1. UNCHANGED client
    BY DEF Serve
  <1>2. ASSUME NEW d \in Call, FindUser(d) \/ InsertUser(d) \/ FindToken(d)
        PROVE  /\ op' = op
               /\ pc'[c] = "idle" <=> pc[c] = "idle"
               /\ pc'[c] \in Handling => pc[c] \in Handling
               /\ code[c] # "none" => code'[c] = code[c] /\ granted'[c] = granted[c]
               /\ code'[c] # code[c] => pc[c] \in Handling
               /\ granted'[c] # granted[c] => granted'[c] \in Token /\ token[granted'[c]] = "unused"
    BY <1>2 DEF FindUser, InsertUser, FindToken
  <1>3. ASSUME NEW d \in Call, Revoke(d) \/ Verify(d) \/ QueryFails(d)
        PROVE  /\ op' = op
               /\ pc'[c] = "idle" <=> pc[c] = "idle"
               /\ pc'[c] \in Handling => pc[c] \in Handling
               /\ code[c] # "none" => code'[c] = code[c] /\ granted'[c] = granted[c]
               /\ code'[c] # code[c] => pc[c] \in Handling
               /\ granted'[c] # granted[c] => granted'[c] \in Token /\ token[granted'[c]] = "unused"
    BY <1>3 DEF Revoke, Verify, QueryFails
  <1>4. ASSUME NEW d \in Call, Issue(d)
        PROVE  /\ op' = op
               /\ pc'[c] = "idle" <=> pc[c] = "idle"
               /\ pc'[c] \in Handling => pc[c] \in Handling
               /\ code[c] # "none" => code'[c] = code[c] /\ granted'[c] = granted[c]
               /\ code'[c] # code[c] => pc[c] \in Handling
               /\ granted'[c] # granted[c] => granted'[c] \in Token /\ token[granted'[c]] = "unused"
    BY <1>4 DEF Issue
  <1>5. ASSUME NEW t \in Token, AccessExpires(t) \/ RefreshExpires(t)
        PROVE  UNCHANGED <<op, pc, code, granted>>
    BY <1>5 DEF AccessExpires, RefreshExpires
  <1>6. CASE Crash
    <2>1. code[c] # "none" => pc[c] = "done"
      OBVIOUS
    <2>2. /\ pc'[c] = IF pc[c] \in Handling THEN "done" ELSE pc[c]
          /\ code'[c] = IF pc[c] \in Handling THEN "lost" ELSE code[c]
          /\ UNCHANGED <<op, granted>>
      BY <1>6 DEF Crash
    <2> QED BY <1>1, <2>1, <2>2
  <1> QED BY <1>1, <1>2, <1>3, <1>4, <1>5, <1>6 DEF Serve, Handle, Time

-----------------------------------------------------------------------------
(* The client's side: its types; pair was handed to somebody.              *)
ClientTypes ==
  /\ asked \in [Task -> Wishes \union {NoWish}]
  /\ step \in [Task -> Legs \union {"idle", "done"}]
  /\ pair \in Held \union {NoToken}
  /\ refreshing \in BOOLEAN
  /\ result \in [Task -> {"none", "ok", "401", "422", "500", "timeout"}]

(* A call's exchanges follow one another; what the server still works on   *)
(* is awaited, or was given up.                                            *)
Sent(t, leg) == pc[<<t, leg>>] # "idle"
Along(t) ==
  /\ step[t] = "idle" <=> asked[t] = NoWish
  /\ step[t] = "done" <=> result[t] # "none"
  /\ \A leg \in Legs : step[t] = leg => Sent(t, leg)
  /\ step[t] = "idle" => \A leg \in Legs : ~Sent(t, leg)
  /\ step[t] = "login" => /\ asked[t].kind \in {"call", "raw", "login"}
                          /\ ~Sent(t, "send") /\ ~Sent(t, "refresh") /\ ~Sent(t, "retry")
  /\ step[t] = "send" => /\ asked[t].kind \in {"call", "raw"}
                         /\ ~Sent(t, "refresh") /\ ~Sent(t, "retry")
  /\ step[t] = "refresh" => asked[t].kind \in {"call", "refresh"} /\ ~Sent(t, "retry")
  /\ step[t] = "retry" => asked[t].kind = "call"
  /\ Sent(t, "login") => op[<<t, "login">>].kind = "login"
  /\ Sent(t, "send") => op[<<t, "send">>].kind = "use"
  /\ Sent(t, "refresh") => op[<<t, "refresh">>].kind = "refresh"
  /\ Sent(t, "retry") => op[<<t, "retry">>].kind = "use"
  /\ \A leg \in Legs : pc[<<t, leg>>] \in Handling =>
       step[t] = leg \/ result[t] = "timeout"
Itinerary ==
  /\ \A c \in Call \ (Task \X Legs) : pc[c] = "idle"
  /\ \A t \in Task : Along(t)

(* A retry follows a 401, and a call that succeeds had an exchange that    *)
(* did.                                                                    *)
Outcomes ==
  \A t \in Task :
    /\ step[t] = "refresh" /\ asked[t].kind = "call" => code[<<t, "send">>] = "401"
    /\ Sent(t, "retry") => code[<<t, "send">>] = "401"
    /\ result[t] = "ok" /\ asked[t].kind \in {"call", "raw"} =>
         code[<<t, "send">>] = "ok" \/ code[<<t, "retry">>] = "ok"

(* A token pair on its way to the client is known to nobody yet; the pair  *)
(* the client holds has not been exchanged but in an exchange it still     *)
(* waits for, or gave up.                                                  *)
Coming(t) == IF step[t] \in {"login", "refresh"} THEN granted[<<t, step[t]>>] ELSE NoToken
Unseen ==
  \A t, u \in Task :
    /\ Coming(t) # NoToken => /\ Coming(t) # pair
                              /\ Sent(u, "refresh") => op[<<u, "refresh">>].token # Coming(t)
    /\ Sent(u, "refresh") /\ code[<<u, "refresh">>] = "ok" /\ op[<<u, "refresh">>].token = pair =>
         step[u] = "refresh" \/ result[u] = "timeout"

ClientInv == ClientTypes /\ Itinerary /\ OneRefreshAtATime /\ Outcomes /\ Unseen
SdkInv == ServerInv /\ ClientInv

-----------------------------------------------------------------------------
(* What the client sends. *)
Requests == Logins \union [kind : {"use", "refresh"}, token : Held \union {NoToken}]

LEMMA ExchangeFacts ==
  ASSUME ServerInv, NEW t \in Task, NEW leg \in Legs, NEW o \in Requests, Exchange(t, leg, o)
  PROVE  /\ <<t, leg>> \in Call /\ pc[<<t, leg>>] = "idle"
         /\ op' = [op EXCEPT ![<<t, leg>>] = o]
         /\ \E entry \in Handling : pc' = [pc EXCEPT ![<<t, leg>>] = entry]
         /\ step' = [step EXCEPT ![t] = leg]
         /\ UNCHANGED <<result, code, granted, token>>
         /\ SessionsNext
  <1>1. <<t, leg>> \in Call
    BY SdkAssumption
  <1>2. o \in Workload \union Presenting
    BY DEF Requests, Logins, Presenting
  <1>3. Entry(o) \in Handling
    BY DEF Entry, Handling
  <1> QED BY <1>1, <1>2, <1>3
       DEF Exchange, Receive, Goto, SessionsNext, answers, tokens

(* The requests of each step are such. *)
LEMMA RequestsSent ==
  ASSUME ServerInv, ClientTypes, NEW p \in Held \union {NoToken}
  PROVE  Request(p) \in Requests /\ Refresh(p) \in Requests
  BY DEF Requests, Request, Refresh

LEMMA GrantedIsHeld ==
  ASSUME ServerInv, NEW c \in Call
  PROVE  granted[c] \in Held \union {NoToken}
  BY DEF Held

(* Whatever somebody holds has been handed out.                            *)
LEMMA HeldUsed ==
  ASSUME ServerInv, NEW p \in (Held \union {NoToken}) \intersect Token
  PROVE  token[p] # "unused"
  <1>1. p # NoToken
    BY SessionsAssumption
  <1>2. p \in Issued \/ \E c \in Call : p = granted[c]
    BY <1>1 DEF Held
  <1> QED BY <1>1, <1>2 DEF ServerInv, Handed

(* Whoever holds a token pair keeps it.                                    *)
LEMMA HeldGrows ==
  ASSUME ServerInv, \A c \in Call : granted[c] # NoToken => granted'[c] = granted[c]
  PROVE  Held \subseteq Held'
  BY DEF Held

-----------------------------------------------------------------------------
(* The server's steps leave the client alone, but for what it will be      *)
(* answered.                                                               *)
LEMMA ServeKeeps ==
  ASSUME SdkInv, Serve
  PROVE  ClientInv'
  <1> USE DEF SdkInv, ClientInv
  <1>1. op' = op /\ UNCHANGED client
    <2>1. UNCHANGED op
      BY DEF Serve, Handle, Time, FindUser, InsertUser, FindToken,
             Revoke, Issue, Verify, QueryFails, AccessExpires,
             RefreshExpires, Crash
    <2> QED BY <2>1 DEF Serve
  <1>2. /\ asked' = asked /\ step' = step /\ pair' = pair
        /\ refreshing' = refreshing /\ result' = result
    BY <1>1 DEF client
  <1>3. \A c \in Call :
         /\ pc'[c] = "idle" <=> pc[c] = "idle"
         /\ pc'[c] \in Handling => pc[c] \in Handling
         /\ code[c] # "none" => code'[c] = code[c] /\ granted'[c] = granted[c]
         /\ code'[c] # code[c] => pc[c] \in Handling
         /\ granted'[c] # granted[c] => granted'[c] \in Token /\ token[granted'[c]] = "unused"
    BY ServeFacts
  <1>4. \A t \in Task, leg \in Legs : <<t, leg>> \in Call
    BY SdkAssumption
  <1>5. \A t \in Task, leg \in Legs : Sent(t, leg)' <=> Sent(t, leg)
    BY <1>3, <1>4 DEF Sent
  <1>6. ClientTypes'
    <2>1. Held \subseteq Held'
      BY <1>3, HeldGrows DEF ServerInv, Routed
    <2> QED BY <1>2, <2>1 DEF ClientTypes
  <1>7. Itinerary'
    <2>1. \A c \in Call \ (Task \X Legs) : pc'[c] = "idle"
      BY <1>3 DEF Itinerary, Along
    <2>2. ASSUME NEW t \in Task, NEW leg \in Legs, pc'[<<t, leg>>] \in Handling
          PROVE  step'[t] = leg \/ result'[t] = "timeout"
      BY <1>2, <1>3, <1>4, <2>2 DEF Itinerary, Along
    <2>3. \A t \in Task, leg \in Legs : step[t] = leg => Sent(t, leg)'
      BY <1>5 DEF Itinerary, Along
    <2> QED BY <1>1, <1>2, <1>5, <2>1, <2>2, <2>3 DEF Itinerary, Along, Legs
  <1>8. OneRefreshAtATime'
    BY <1>2 DEF OneRefreshAtATime, Renewing
  <1>9. Outcomes'
    <2>1. \A t \in Task : \A leg \in {"send", "retry"} :
            code[<<t, leg>>] # "none" => code'[<<t, leg>>] = code[<<t, leg>>]
      BY <1>3, <1>4 DEF Legs
    <2> QED BY <1>2, <1>5, <2>1 DEF Outcomes, Legs
  <1>10. Unseen'
    <2> SUFFICES ASSUME NEW t \in Task, NEW u \in Task
                 PROVE  /\ Coming(t)' # NoToken =>
                             /\ Coming(t)' # pair
                             /\ Sent(u, "refresh") => op[<<u, "refresh">>].token # Coming(t)'
                        /\ /\ Sent(u, "refresh") /\ code'[<<u, "refresh">>] = "ok"
                           /\ op[<<u, "refresh">>].token = pair
                           => step[u] = "refresh" \/ result[u] = "timeout"
      BY <1>1, <1>2, <1>5 DEF Unseen, Legs
    <2>1. CASE Coming(t)' = Coming(t)
      <3>1. CASE code'[<<u, "refresh">>] = code[<<u, "refresh">>]
        BY <2>1, <3>1 DEF Unseen
      <3>2. CASE code'[<<u, "refresh">>] # code[<<u, "refresh">>]
        <4>1. pc[<<u, "refresh">>] \in Handling
          BY <1>3, <1>4, <3>2 DEF Legs
        <4>2. step[u] = "refresh" \/ result[u] = "timeout"
          BY <4>1 DEF Itinerary, Along, Legs
        <4> QED BY <2>1, <4>2 DEF Unseen
      <3> QED BY <3>1, <3>2
    <2>2. CASE Coming(t)' # Coming(t)
      <3>1. Coming(t)' \in Token /\ token[Coming(t)'] = "unused"
        BY <1>2, <1>3, <1>4, <2>2 DEF Coming, Legs
      <3>2. pair \in Token => token[pair] # "unused"
        BY HeldUsed DEF ClientTypes
      <3>3. Sent(u, "refresh") /\ op[<<u, "refresh">>].token \in Token =>
              token[op[<<u, "refresh">>].token] # "unused"
        BY <1>4 DEF ServerInv, Handed, Itinerary, Along, Legs
      <3>4. CASE code'[<<u, "refresh">>] = code[<<u, "refresh">>]
        BY <3>1, <3>2, <3>3, <3>4 DEF Unseen
      <3>5. CASE code'[<<u, "refresh">>] # code[<<u, "refresh">>]
        <4>1. pc[<<u, "refresh">>] \in Handling
          BY <1>3, <1>4, <3>5 DEF Legs
        <4>2. step[u] = "refresh" \/ result[u] = "timeout"
          BY <4>1 DEF Itinerary, Along, Legs
        <4> QED BY <3>1, <3>2, <3>3, <4>2
      <3> QED BY <3>4, <3>5
    <2> QED BY <2>1, <2>2
  <1> QED BY <1>6, <1>7, <1>8, <1>9, <1>10

-----------------------------------------------------------------------------
(* The steps of the client.  Nothing is on its way to it when it sends the *)
(* next request of a call, or settles it.                                  *)
Quiet(t) == \A leg \in Legs : pc[<<t, leg>>] \notin Handling
Kind(leg) == IF leg \in {"login", "refresh"} THEN leg ELSE "use"

(* What leg may be sent next for a call that asks w. *)
InTurn(t, leg, w) ==
  /\ leg = "login" => /\ w.kind \in {"call", "raw", "login"}
                      /\ ~Sent(t, "send") /\ ~Sent(t, "refresh") /\ ~Sent(t, "retry")
  /\ leg = "send" => /\ w.kind \in {"call", "raw"}
                     /\ ~Sent(t, "refresh") /\ ~Sent(t, "retry")
  /\ leg = "refresh" => w.kind \in {"call", "refresh"} /\ ~Sent(t, "retry")
  /\ leg = "retry" => w.kind = "call"

LEMMA Departure ==
  ASSUME SdkInv, NEW t \in Task, NEW leg \in Legs, NEW o \in Requests, Exchange(t, leg, o),
         NEW w \in Wishes, asked' = [asked EXCEPT ![t] = w],
         o.kind = Kind(leg), step[t] # "done", Quiet(t), InTurn(t, leg, w)
  PROVE  /\ Itinerary'
         /\ \A u \in Task, l \in Legs :
              pc'[<<u, l>>] # "idle" <=> pc[<<u, l>>] # "idle" \/ (u = t /\ l = leg)
         /\ \A u \in Task, l \in Legs :
              op'[<<u, l>>] = IF u = t /\ l = leg THEN o ELSE op[<<u, l>>]
         /\ code[<<t, leg>>] = "none" /\ granted[<<t, leg>>] = NoToken
         /\ \A u \in Task : /\ step'[u] = IF u = t THEN leg ELSE step[u]
                            /\ asked'[u] = IF u = t THEN w ELSE asked[u]
         /\ asked' \in [Task -> Wishes \union {NoWish}]
         /\ step' \in [Task -> Legs \union {"idle", "done"}]
         /\ UNCHANGED <<result, code, granted, Held>> /\ SessionsNext
  <1> USE DEF SdkInv, ClientInv
  <1>1. PICK entry \in Handling : pc' = [pc EXCEPT ![<<t, leg>>] = entry]
    BY ExchangeFacts
  <1>2. /\ pc[<<t, leg>>] = "idle" /\ op' = [op EXCEPT ![<<t, leg>>] = o]
        /\ step' = [step EXCEPT ![t] = leg] /\ result' = result
    BY ExchangeFacts
  <1>3. \A u \in Task, l \in Legs : <<u, l>> \in Call
    BY SdkAssumption
  <1>4. /\ DOMAIN pc = Call /\ DOMAIN op = Call
        /\ DOMAIN step = Task /\ DOMAIN asked = Task
    BY DEF ServerInv, SessionsTypeOK, ClientTypes
  <1>5. entry # "idle"
    BY DEF Handling
  <1>6. /\ \A u \in Task, l \in Legs :
             /\ pc'[<<u, l>>] = IF u = t /\ l = leg THEN entry ELSE pc[<<u, l>>]
             /\ op'[<<u, l>>] = IF u = t /\ l = leg THEN o ELSE op[<<u, l>>]
        /\ \A c \in Call \ (Task \X Legs) : pc'[c] = pc[c]
    BY <1>1, <1>2, <1>3, <1>4
  <1>7. \A u \in Task, l \in Legs : Sent(u, l)' <=> Sent(u, l) \/ (u = t /\ l = leg)
    BY <1>5, <1>6 DEF Sent
  <1>8. \A u \in Task : /\ step'[u] = IF u = t THEN leg ELSE step[u]
                        /\ asked'[u] = IF u = t THEN w ELSE asked[u]
    BY <1>2, <1>4
  <1>9. code[<<t, leg>>] = "none" /\ granted[<<t, leg>>] = NoToken
    BY <1>2, <1>3 DEF ServerInv, Routed
  <1>10. result[t] = "none" /\ w # NoWish
    BY SdkAssumption DEF Itinerary, Along, NoWish
  <1>11. \A c \in Call \ (Task \X Legs) : pc'[c] = "idle"
    BY <1>6 DEF Itinerary
  <1>12. ASSUME NEW u \in Task, u # t
         PROVE  /\ step'[u] = step[u] /\ asked'[u] = asked[u] /\ result'[u] = result[u]
                /\ \A l \in Legs : /\ Sent(u, l)' <=> Sent(u, l)
                                   /\ op'[<<u, l>>] = op[<<u, l>>]
                                   /\ pc'[<<u, l>>] = pc[<<u, l>>]
    BY <1>2, <1>6, <1>7, <1>8, <1>12
  <1>13. ASSUME NEW u \in Task, u # t
         PROVE  Along(u)'
    BY <1>12, <1>13 DEF Itinerary, Along, Legs
  <1>14. Along(t)'
    BY <1>2, <1>6, <1>7, <1>8, <1>10 DEF Itinerary, Along, Legs, Quiet, InTurn, Kind
  <1>15. Itinerary'
    <2>1. \A u \in Task : Along(u)'
      BY <1>13, <1>14
    <2> QED BY <1>11, <2>1 DEF Itinerary
  <1>16. UNCHANGED <<result, code, granted>> /\ SessionsNext
    BY ExchangeFacts
  <1>17. Held' = Held
    BY <1>16 DEF Held
  <1>18. /\ asked' \in [Task -> Wishes \union {NoWish}]
         /\ step' \in [Task -> Legs \union {"idle", "done"}]
    BY <1>2 DEF ClientTypes
  <1> QED BY <1>5, <1>6, <1>8, <1>9, <1>15, <1>16, <1>17, <1>18

(* An answer has arrived when the server is done with the exchange; the    *)
(* answers of the server's that this client can get.                       *)
LEMMA ArrivedFacts ==
  ASSUME SdkInv, NEW t \in Task, NEW leg \in Legs, Arrived(t, leg)
  PROVE  /\ Quiet(t) /\ step[t] = leg /\ result[t] = "none" /\ asked[t] \in Wishes
         /\ <<t, leg>> \in Call /\ pc[<<t, leg>>] = "done" /\ op[<<t, leg>>].kind = Kind(leg)
         /\ Status(t) = code[<<t, leg>>] /\ Granted(t) = granted[<<t, leg>>]
         /\ Status(t) \in {"ok", "401", "422", "500"}
         /\ Status(t) = "ok" /\ leg \in {"login", "refresh"} =>
              Granted(t) = Coming(t) /\ Granted(t) # NoToken /\ Granted(t) \in Held
  <1> USE DEF SdkInv, ClientInv
  <1>1. <<t, leg>> \in Call
    BY SdkAssumption
  <1>2. step[t] = leg /\ code[<<t, leg>>] \notin {"none", "lost"}
        /\ Status(t) = code[<<t, leg>>] /\ Granted(t) = granted[<<t, leg>>]
    BY DEF Arrived, Status, Granted
  <1>3. pc[<<t, leg>>] = "done" /\ pc[<<t, leg>>] \notin Handling
    BY <1>1, <1>2 DEF ServerInv, Routed, Handling
  <1>4. Along(t) /\ step[t] # "done" /\ step[t] # "idle"
    BY <1>2 DEF Itinerary, Legs
  <1>5. result[t] = "none" /\ asked[t] # NoWish
    BY <1>4 DEF Along
  <1>6. asked[t] \in Wishes
    BY <1>5 DEF ClientTypes
  <1>7. Quiet(t)
    BY <1>2, <1>3, <1>4, <1>5 DEF Along, Quiet
  <1>8. op[<<t, leg>>].kind = Kind(leg)
    BY <1>3, <1>4 DEF Along, Sent, Kind, Legs
  <1>9. Status(t) \in {"ok", "401", "422", "500"}
    <2>1. code[<<t, leg>>] \in {"none", "ok", "401", "409", "422", "500", "lost"}
      BY <1>1 DEF ServerInv, SessionsTypeOK
    <2>2. code[<<t, leg>>] # "409"
      BY <1>1, <1>8 DEF ServerInv, Routed, Kind, Legs
    <2> QED BY <1>2, <2>1, <2>2
  <1>10. ASSUME Status(t) = "ok", leg \in {"login", "refresh"}
         PROVE  Granted(t) = Coming(t) /\ Granted(t) # NoToken /\ Granted(t) \in Held
    <2>1. granted[<<t, leg>>] # NoToken
      BY <1>1, <1>2, <1>8, <1>10 DEF ServerInv, Routed, Kind
    <2> QED BY <1>1, <1>2, <1>10, <2>1 DEF Coming, Held
  <1> QED BY <1>1, <1>2, <1>3, <1>5, <1>6, <1>7, <1>8, <1>9, <1>10

LEMMA Settlement ==
  ASSUME SdkInv, NEW t \in Task, NEW status \in {"ok", "401", "422", "500", "timeout"},
         Settle(t, status), step[t] \in Legs, asked' = asked, status = "timeout" \/ Quiet(t)
  PROVE  /\ Itinerary'
         /\ \A u \in Task : /\ step'[u] = IF u = t THEN "done" ELSE step[u]
                            /\ result'[u] = IF u = t THEN status ELSE result[u]
         /\ step' \in [Task -> Legs \union {"idle", "done"}]
         /\ result' \in [Task -> {"none", "ok", "401", "422", "500", "timeout"}]
         /\ UNCHANGED <<op, code, granted, Held>> /\ UNCHANGED server
  <1> USE DEF SdkInv, ClientInv
  <1>1. UNCHANGED server
    BY DEF Settle
  <1>2. UNCHANGED <<op, pc, code, granted, token>>
    BY <1>1 DEF server
  <1>3. \A u \in Task : /\ step'[u] = IF u = t THEN "done" ELSE step[u]
                        /\ result'[u] = IF u = t THEN status ELSE result[u]
    BY DEF Settle, ClientTypes
  <1>4. \A u \in Task, leg \in Legs : Sent(u, leg)' <=> Sent(u, leg)
    BY <1>2 DEF Sent
  <1>5. ASSUME NEW u \in Task, u # t
        PROVE  Along(u)'
    BY <1>2, <1>3, <1>4, <1>5 DEF Itinerary, Along, Legs
  <1>6. Along(t)'
    BY <1>2, <1>3, <1>4 DEF Itinerary, Along, Legs, Quiet
  <1>7. \A u \in Task : Along(u)'
    BY <1>5, <1>6
  <1>8. Held' = Held
    BY <1>2 DEF Held
  <1>9. /\ step' \in [Task -> Legs \union {"idle", "done"}]
         /\ result' \in [Task -> {"none", "ok", "401", "422", "500", "timeout"}]
    BY DEF Settle, ClientTypes
  <1>10. Itinerary'
    BY <1>2, <1>7 DEF Itinerary
  <1> QED BY <1>1, <1>2, <1>3, <1>8, <1>9, <1>10

(* A call outside a refresh leaves the flag alone; the one that refreshes  *)
(* set it when nobody did, and clears it when it is through.               *)
LEMMA FlagKept ==
  ASSUME OneRefreshAtATime, refreshing \in BOOLEAN, NEW t \in Task,
         \A u \in Task : u # t => step'[u] = step[u] /\ asked'[u] = asked[u],
         \/ (Renewing(t)' <=> Renewing(t)) /\ refreshing' = refreshing
         \/ ~Renewing(t)' /\ refreshing' = (refreshing /\ ~Renewing(t))
         \/ ~refreshing /\ Renewing(t)' /\ refreshing' = TRUE
  PROVE  OneRefreshAtATime'
  <1>1. \A u \in Task \ {t} : Renewing(u)' <=> Renewing(u)
    BY DEF Renewing
  <1>2. /\ refreshing <=> \E u \in Task : Renewing(u)
        /\ \A u, v \in Task : Renewing(u) /\ Renewing(v) => u = v
    BY DEF OneRefreshAtATime
  <1>3. /\ refreshing' <=> \E u \in Task : Renewing(u)'
        /\ \A u, v \in Task : Renewing(u)' /\ Renewing(v)' => u = v
    <2>1. CASE (Renewing(t)' <=> Renewing(t)) /\ refreshing' = refreshing
      BY <1>1, <1>2, <2>1
    <2>2. CASE ~Renewing(t)' /\ refreshing' = (refreshing /\ ~Renewing(t))
      <3>1. CASE Renewing(t)
        BY <1>1, <1>2, <2>2, <3>1
      <3>2. CASE ~Renewing(t)
        <4>1. refreshing' = refreshing
          BY <2>2, <3>2
        <4> QED BY <1>1, <1>2, <2>2, <3>2, <4>1
      <3> QED BY <3>1, <3>2
    <2>3. CASE ~refreshing /\ Renewing(t)' /\ refreshing' = TRUE
      BY <1>1, <1>2, <2>3
    <2> QED BY <2>1, <2>2, <2>3
  <1> QED BY <1>3 DEF OneRefreshAtATime

(* The client keeps its pair, and may present it for a refresh.            *)
LEMMA UnseenWithSamePair ==
  ASSUME SdkInv, pair' = pair, UNCHANGED <<code, granted>>,
         NEW v \in Task, \A u \in Task : u # v => step'[u] = step[u] /\ result'[u] = result[u],
         step'[v] \in {"login", "refresh"} => granted[<<v, step'[v]>>] = NoToken,
         step[v] = "refresh" /\ code[<<v, "refresh">>] = "ok" => result'[v] = "timeout",
         result[v] # "timeout",
         \A u \in Task :
           \/ /\ pc'[<<u, "refresh">>] # "idle" <=> pc[<<u, "refresh">>] # "idle"
              /\ op'[<<u, "refresh">>] = op[<<u, "refresh">>]
           \/ op'[<<u, "refresh">>].token = pair /\ code[<<u, "refresh">>] = "none"
  PROVE  Unseen'
  <1>1. \A t \in Task : Coming(t)' \in {Coming(t), NoToken}
    BY DEF Coming
  <1>2. \A u \in Task :
          \/ step[u] = "refresh" /\ code[<<u, "refresh">>] = "ok"
          \/ result[u] = "timeout"
          => step'[u] = "refresh" \/ result'[u] = "timeout"
    OBVIOUS
  <1> SUFFICES ASSUME NEW t \in Task, NEW u \in Task
               PROVE  /\ Coming(t)' # NoToken =>
                           /\ Coming(t)' # pair
                           /\ Sent(u, "refresh")' => op'[<<u, "refresh">>].token # Coming(t)'
                      /\ /\ Sent(u, "refresh")' /\ code[<<u, "refresh">>] = "ok"
                         /\ op'[<<u, "refresh">>].token = pair
                         => step'[u] = "refresh" \/ result'[u] = "timeout"
    BY DEF Unseen
  <1>3. \/ (Sent(u, "refresh")' <=> Sent(u, "refresh")) /\ op'[<<u, "refresh">>] = op[<<u, "refresh">>]
        \/ op'[<<u, "refresh">>].token = pair /\ code[<<u, "refresh">>] = "none"
    BY DEF Sent
  <1> QED BY <1>1, <1>2, <1>3 DEF SdkInv, ClientInv, Unseen

(* The client takes the pair that was on its way: nobody presented it yet. *)
LEMMA UnseenWithNewPair ==
  ASSUME SdkInv, NEW t \in Task, Coming(t) # NoToken, pair' = Coming(t),
         UNCHANGED <<code, granted>>,
         \A u \in Task : u # t => step'[u] = step[u],
         step'[t] \notin {"login", "refresh"},
         \A u \in Task : /\ pc'[<<u, "refresh">>] # "idle" <=> pc[<<u, "refresh">>] # "idle"
                         /\ op'[<<u, "refresh">>] = op[<<u, "refresh">>]
  PROVE  Unseen'
  <1>1. \A u \in Task : u # t /\ Coming(u) # NoToken => Coming(u) # Coming(t)
    <2> SUFFICES ASSUME NEW u \in Task, u # t, Coming(u) # NoToken
                 PROVE  Coming(u) # Coming(t)
      OBVIOUS
    <2>1. /\ step[t] \in {"login", "refresh"} /\ Coming(t) = granted[<<t, step[t]>>]
          /\ step[u] \in {"login", "refresh"} /\ Coming(u) = granted[<<u, step[u]>>]
      BY DEF Coming
    <2>2. <<t, step[t]>> \in Call /\ <<u, step[u]>> \in Call
      BY <2>1, SdkAssumption DEF Legs
    <2> QED BY <2>1, <2>2 DEF SdkInv, ServerInv, Handed
  <1>2. \A u \in Task : Coming(u)' = IF u = t THEN NoToken ELSE Coming(u)
    BY DEF Coming
  <1>3. \A u \in Task : Sent(u, "refresh")' <=> Sent(u, "refresh")
    BY DEF Sent
  <1> SUFFICES ASSUME NEW v \in Task, NEW u \in Task
               PROVE  /\ Coming(v)' # NoToken =>
                           /\ Coming(v)' # Coming(t)
                           /\ Sent(u, "refresh")' => op'[<<u, "refresh">>].token # Coming(v)'
                      /\ /\ Sent(u, "refresh")' /\ code[<<u, "refresh">>] = "ok"
                         /\ op'[<<u, "refresh">>].token = Coming(t)
                         => step'[u] = "refresh" \/ result'[u] = "timeout"
    BY DEF Unseen
  <1> QED BY <1>1, <1>2, <1>3 DEF SdkInv, ClientInv, Unseen

-----------------------------------------------------------------------------
(* The client's steps, one by one.  What a step sends is a call of the     *)
(* server's.                                                               *)
LEMMA BeginKeeps ==
  ASSUME SdkInv, NEW t \in Task, Begin(t)
  PROVE  ClientInv' /\ [SessionsNext]_server
  <1> USE DEF SdkInv, ClientInv
  <1>1. PICK w \in Wishes :
          /\ asked' = [asked EXCEPT ![t] = w]
          /\ \/ w.kind = "login" /\ Exchange(t, "login", w.with)
             \/ w.kind = "refresh" /\ Exchange(t, "refresh", Refresh(pair))
             \/ /\ w.kind \in {"call", "raw"}
                /\ \/ Credentials # NoCredentials /\ Exchange(t, "login", Credentials)
                   \/ Exchange(t, "send", Request(pair))
    BY DEF Begin
  <1>2. PICK leg \in {"login", "send", "refresh"}, o \in Requests :
          /\ Exchange(t, leg, o) /\ o.kind = Kind(leg)
          /\ leg = "refresh" => w.kind = "refresh" /\ o.token = pair
          /\ leg = "login" => w.kind \in {"call", "raw", "login"}
          /\ leg = "send" => w.kind \in {"call", "raw"}
    <2>1. CASE w.kind = "login" /\ Exchange(t, "login", w.with)
      BY <2>1, SdkAssumption DEF Requests, Logins, Kind
    <2>2. CASE w.kind = "refresh" /\ Exchange(t, "refresh", Refresh(pair))
      BY <2>2, RequestsSent DEF ClientTypes, Refresh, Kind
    <2>3. CASE w.kind \in {"call", "raw"} /\ Credentials # NoCredentials /\ Exchange(t, "login", Credentials)
      BY <2>3, SdkAssumption DEF Requests, Logins, Kind
    <2>4. CASE w.kind \in {"call", "raw"} /\ Exchange(t, "send", Request(pair))
      BY <2>4, RequestsSent DEF ClientTypes, Request, Kind
    <2> QED BY <1>1, <2>1, <2>2, <2>3, <2>4
  <1>3. step[t] = "idle" /\ Along(t) /\ leg \in Legs /\ UNCHANGED <<pair, refreshing>>
    BY DEF Begin, Itinerary, Legs
  <1>4. \A l \in Legs : /\ ~Sent(t, l) /\ pc[<<t, l>>] = "idle"
                        /\ pc[<<t, l>>] \notin Handling
    BY <1>3 DEF Along, Sent, Handling
  <1>5. Quiet(t) /\ InTurn(t, leg, w)
    BY <1>2, <1>4 DEF Quiet, InTurn, Legs
  <1>6. /\ Itinerary'
        /\ \A u \in Task, l \in Legs :
             pc'[<<u, l>>] # "idle" <=> pc[<<u, l>>] # "idle" \/ (u = t /\ l = leg)
        /\ \A u \in Task, l \in Legs :
             op'[<<u, l>>] = IF u = t /\ l = leg THEN o ELSE op[<<u, l>>]
        /\ code[<<t, leg>>] = "none" /\ granted[<<t, leg>>] = NoToken
        /\ \A u \in Task : /\ step'[u] = IF u = t THEN leg ELSE step[u]
                           /\ asked'[u] = IF u = t THEN w ELSE asked[u]
        /\ asked' \in [Task -> Wishes \union {NoWish}]
        /\ step' \in [Task -> Legs \union {"idle", "done"}]
        /\ UNCHANGED <<result, code, granted, Held>> /\ SessionsNext
    <2>1. /\ SdkInv /\ Exchange(t, leg, o) /\ asked' = [asked EXCEPT ![t] = w]
          /\ o.kind = Kind(leg) /\ step[t] # "done" /\ Quiet(t) /\ InTurn(t, leg, w)
          /\ leg \in Legs
      BY <1>1, <1>2, <1>3, <1>5
    <2> HIDE DEF SdkInv, ClientInv
    <2> QED BY <2>1, Departure
  <1>7. ClientTypes'
    BY <1>3, <1>6 DEF ClientTypes
  <1>8. OneRefreshAtATime'
    <2>1. ~Renewing(t) /\ ~Renewing(t)'
      BY <1>2, <1>3, <1>6 DEF Renewing
    <2> QED BY <1>3, <1>6, <2>1, FlagKept DEF ClientTypes
  <1>9. Outcomes'
    <2>1. result[t] = "none"
      BY <1>3 DEF Along
    <2>2. pc'[<<t, "retry">>] = "idle"
      BY <1>2, <1>4, <1>6 DEF Legs
    <2> QED BY <1>2, <1>6, <2>1, <2>2 DEF Outcomes, Legs, Sent
  <1>10. Unseen'
    <2>1. result[t] = "none"
      BY <1>3 DEF Along
    <2> HIDE DEF SdkInv, ClientInv
    <2> QED BY <1>2, <1>3, <1>6, <2>1, UnseenWithSamePair DEF Legs
  <1> QED BY <1>6, <1>7, <1>8, <1>9, <1>10

(* A call that is settled, by an answer or by its timer.                   *)
LEMMA SettleKeeps ==
  ASSUME SdkInv, NEW t \in Task, NEW status \in {"ok", "401", "422", "500", "timeout"},
         Settle(t, status), step[t] \in Legs, asked' = asked, status = "timeout" \/ Quiet(t),
         refreshing' = (refreshing /\ ~Renewing(t)),
         status = "ok" /\ asked[t].kind \in {"call", "raw"} =>
           code[<<t, "send">>] = "ok" \/ code[<<t, "retry">>] = "ok",
         \/ pair' = pair /\ (step[t] = "refresh" /\ code[<<t, "refresh">>] = "ok" => status = "timeout")
         \/ pair' = Coming(t) /\ Coming(t) # NoToken /\ Coming(t) \in Held
  PROVE  ClientInv' /\ [SessionsNext]_server
  <1>1. /\ Itinerary'
        /\ \A u \in Task : /\ step'[u] = IF u = t THEN "done" ELSE step[u]
                           /\ result'[u] = IF u = t THEN status ELSE result[u]
        /\ step' \in [Task -> Legs \union {"idle", "done"}]
        /\ result' \in [Task -> {"none", "ok", "401", "422", "500", "timeout"}]
        /\ UNCHANGED <<op, code, granted, Held>> /\ UNCHANGED server
    BY Settlement
  <1>2. UNCHANGED pc
    BY <1>1 DEF server
  <1> USE DEF SdkInv, ClientInv
  <1>3. ClientTypes'
    BY <1>1 DEF ClientTypes
  <1>4. OneRefreshAtATime'
    <2>1. ~Renewing(t)'
      BY <1>1 DEF Renewing
    <2> QED BY <1>1, <2>1, FlagKept DEF ClientTypes
  <1>5. Outcomes'
    BY <1>1, <1>2 DEF Outcomes, Sent, Legs
  <1>6. result[t] = "none"
    BY DEF Itinerary, Along, Legs
  <1>7. Unseen'
    <2>1. CASE pair' = pair /\ (step[t] = "refresh" /\ code[<<t, "refresh">>] = "ok" => status = "timeout")
      BY <1>1, <1>2, <1>6, <2>1, UnseenWithSamePair
    <2>2. CASE pair' = Coming(t) /\ Coming(t) # NoToken /\ Coming(t) \in Held
      BY <1>1, <1>2, <2>2, UnseenWithNewPair
    <2> QED BY <2>1, <2>2
  <1> QED BY <1>1, <1>3, <1>4, <1>5, <1>7

(* A call that goes on: after its login, after a 401, after its refresh.   *)
LEMMA FollowKeeps ==
  ASSUME SdkInv, NEW t \in Task, NEW before \in Legs, NEW leg \in Legs, NEW o \in Requests,
         Arrived(t, before), Exchange(t, leg, o), o.kind = Kind(leg), asked' = asked,
         <<before, leg>> \in {<<"login", "send">>, <<"send", "refresh">>, <<"refresh", "retry">>},
         before = "send" => /\ asked[t].kind = "call" /\ Status(t) = "401" /\ ~refreshing
                            /\ o.token = pair /\ pair' = pair,
         before = "refresh" => asked[t].kind = "call",
         before = "login" => asked[t].kind # "login",
         before # "send" => Status(t) = "ok" /\ pair' = Granted(t),
         refreshing' = (refreshing \/ leg = "refresh")
  PROVE  ClientInv' /\ [SessionsNext]_server
  <1>1. /\ Quiet(t) /\ step[t] = before /\ result[t] = "none" /\ asked[t] \in Wishes
        /\ Status(t) = code[<<t, before>>]
        /\ Status(t) = "ok" /\ before \in {"login", "refresh"} =>
             Granted(t) = Coming(t) /\ Granted(t) # NoToken /\ Granted(t) \in Held
    BY ArrivedFacts
  <1> USE DEF SdkInv, ClientInv
  <1>2. Along(t) /\ asked' = [asked EXCEPT ![t] = asked[t]]
    BY DEF Itinerary, ClientTypes
  <1>3. InTurn(t, leg, asked[t])
    BY <1>1, <1>2 DEF InTurn, Along, Legs
  <1>4. /\ Itinerary'
        /\ \A u \in Task, l \in Legs :
             pc'[<<u, l>>] # "idle" <=> pc[<<u, l>>] # "idle" \/ (u = t /\ l = leg)
        /\ \A u \in Task, l \in Legs :
             op'[<<u, l>>] = IF u = t /\ l = leg THEN o ELSE op[<<u, l>>]
        /\ code[<<t, leg>>] = "none" /\ granted[<<t, leg>>] = NoToken
        /\ \A u \in Task : /\ step'[u] = IF u = t THEN leg ELSE step[u]
                           /\ asked'[u] = IF u = t THEN asked[t] ELSE asked[u]
        /\ asked' \in [Task -> Wishes \union {NoWish}]
        /\ step' \in [Task -> Legs \union {"idle", "done"}]
        /\ UNCHANGED <<result, code, granted, Held>> /\ SessionsNext
    <2>1. step[t] # "done"
      BY <1>1 DEF Legs
    <2> HIDE DEF SdkInv, ClientInv
    <2> QED BY <1>1, <1>2, <1>3, <2>1, Departure
  <1>5. ClientTypes'
    BY <1>1, <1>4 DEF ClientTypes, Legs
  <1>6. OneRefreshAtATime'
    <2>1. CASE leg = "send"
      BY <1>1, <1>4, <2>1, FlagKept DEF Renewing, ClientTypes
    <2>2. CASE leg = "refresh"
      BY <1>1, <1>4, <2>2, FlagKept DEF Renewing, ClientTypes
    <2>3. CASE leg = "retry"
      BY <1>1, <1>4, <2>3, FlagKept DEF Renewing, ClientTypes
    <2> QED BY <2>1, <2>2, <2>3
  <1>7. Outcomes'
    <2>1. leg \in {"refresh", "retry"} => code[<<t, "send">>] = "401"
      BY <1>1 DEF Outcomes
    <2>2. ASSUME NEW u \in Task, u # t
          PROVE  /\ step'[u] = step[u] /\ asked'[u] = asked[u]
                 /\ (Sent(u, "retry"))' <=> Sent(u, "retry")
      BY <1>4, <2>2 DEF Sent, Legs
    <2>3. (Sent(t, "retry"))' => Sent(t, "retry") \/ leg = "retry"
      BY <1>4 DEF Sent, Legs
    <2>4. UNCHANGED <<result, code>> /\ step'[t] = leg /\ asked'[t] = asked[t] /\ result[t] = "none"
      BY <1>1, <1>4
    <2> QED BY <2>1, <2>2, <2>3, <2>4 DEF Outcomes
  <1>8. Unseen'
    <2>1. CASE before = "send"
      <3> HIDE DEF SdkInv, ClientInv
      <3> QED BY <1>1, <1>4, <2>1, UnseenWithSamePair DEF Legs
    <2>2. CASE before # "send"
      <3>1. Coming(t) # NoToken /\ pair' = Coming(t) /\ leg \notin {"login", "refresh"}
        BY <1>1, <2>2 DEF Legs
      <3> HIDE DEF SdkInv, ClientInv
      <3> QED BY <1>4, <3>1, UnseenWithNewPair DEF Legs
    <2> QED BY <2>1, <2>2
  <1> QED BY <1>4, <1>5, <1>6, <1>7, <1>8

LEMMA ReactKeeps ==
  ASSUME SdkInv, NEW t \in Task, React(t)
  PROVE  ClientInv' /\ [SessionsNext]_server
  <1>1. CASE OnLogin(t)
    <2>1. Arrived(t, "login") /\ "login" \in Legs /\ UNCHANGED <<asked, refreshing>>
      BY <1>1 DEF OnLogin, Legs
    <2>2. /\ Quiet(t) /\ step[t] = "login" /\ Status(t) \in {"ok", "401", "422", "500"}
          /\ Status(t) = "ok" => /\ Granted(t) = Coming(t) /\ Granted(t) # NoToken
                                 /\ Granted(t) \in Held
      BY <2>1, ArrivedFacts
    <2>3. asked[t].kind \in {"call", "raw", "login"} /\ ~Renewing(t) /\ refreshing \in BOOLEAN
      BY <2>2 DEF SdkInv, ClientInv, ClientTypes, Itinerary, Along, Renewing
    <2>4. refreshing' = (refreshing /\ ~Renewing(t))
      BY <2>1, <2>3
    <2>5. CASE Status(t) # "ok" /\ Settle(t, Status(t)) /\ UNCHANGED pair
      BY <2>1, <2>2, <2>4, <2>5, SettleKeeps
    <2>6. CASE asked[t].kind = "login" /\ Status(t) = "ok" /\ Settle(t, "ok") /\ pair' = Granted(t)
      BY <2>1, <2>2, <2>4, <2>6, SettleKeeps
    <2>7. CASE /\ asked[t].kind # "login" /\ Status(t) = "ok" /\ pair' = Granted(t)
               /\ Exchange(t, "send", Request(Granted(t)))
      <3>1. Request(Granted(t)) \in Requests /\ Request(Granted(t)).kind = Kind("send")
        BY <2>2, <2>7, RequestsSent DEF SdkInv, ClientInv, Request, Kind
      <3> QED BY <2>1, <2>3, <2>7, <3>1, FollowKeeps DEF Legs
    <2> QED BY <1>1, <2>5, <2>6, <2>7 DEF OnLogin
  <1>2. CASE OnAnswer(t)
    <2>1. Arrived(t, "send") /\ "send" \in Legs /\ UNCHANGED <<asked, pair>>
      BY <1>2 DEF OnAnswer, Legs
    <2>2. /\ Quiet(t) /\ step[t] = "send" /\ Status(t) \in {"ok", "401", "422", "500"}
          /\ Status(t) = code[<<t, "send">>]
      BY <2>1, ArrivedFacts
    <2>3. ~Renewing(t) /\ refreshing \in BOOLEAN
      BY <2>2 DEF SdkInv, ClientInv, ClientTypes, Renewing
    <2>4. CASE Refreshes(t) /\ refreshing' = TRUE /\ Exchange(t, "refresh", Refresh(pair))
      <3>1. Refresh(pair) \in Requests /\ Refresh(pair).kind = Kind("refresh") /\ Refresh(pair).token = pair
        BY RequestsSent DEF SdkInv, ClientInv, ClientTypes, Refresh, Kind
      <3> QED BY <2>1, <2>3, <2>4, <3>1, FollowKeeps DEF Refreshes, Legs
    <2>5. CASE Settle(t, Status(t)) /\ UNCHANGED refreshing
      <3>1. refreshing' = (refreshing /\ ~Renewing(t))
        BY <2>3, <2>5
      <3> QED BY <2>1, <2>2, <2>5, <3>1, SettleKeeps
    <2> QED BY <1>2, <2>4, <2>5 DEF OnAnswer
  <1>3. CASE OnRefresh(t)
    <2>1. Arrived(t, "refresh") /\ "refresh" \in Legs /\ UNCHANGED asked
      BY <1>3 DEF OnRefresh, Legs
    <2>2. /\ Quiet(t) /\ step[t] = "refresh" /\ Status(t) \in {"ok", "401", "422", "500"}
          /\ Status(t) = code[<<t, "refresh">>]
          /\ Status(t) = "ok" => /\ Granted(t) = Coming(t) /\ Granted(t) # NoToken
                                 /\ Granted(t) \in Held
      BY <2>1, ArrivedFacts
    <2>3. asked[t].kind \in {"call", "refresh"} /\ refreshing \in BOOLEAN
      BY <2>2 DEF SdkInv, ClientInv, ClientTypes, Itinerary, Along
    <2>4. CASE /\ Status(t) = "ok" /\ pair' = Granted(t) /\ UNCHANGED refreshing
               /\ Renewing(t) /\ Exchange(t, "retry", Request(Granted(t)))
      <3>1. Request(Granted(t)) \in Requests /\ Request(Granted(t)).kind = Kind("retry")
        BY <2>2, <2>4, RequestsSent DEF SdkInv, ClientInv, Request, Kind
      <3> QED BY <2>1, <2>3, <2>4, <3>1, FollowKeeps DEF Legs, Renewing
    <2>5. CASE /\ Status(t) = "ok" /\ pair' = Granted(t) /\ UNCHANGED refreshing
               /\ ~Renewing(t) /\ Settle(t, "ok")
      <3>1. refreshing' = (refreshing /\ ~Renewing(t)) /\ asked[t].kind = "refresh"
        BY <2>2, <2>3, <2>5 DEF Renewing
      <3> QED BY <2>1, <2>2, <2>5, <3>1, SettleKeeps
    <2>6. CASE /\ Status(t) # "ok" /\ Settle(t, Status(t)) /\ UNCHANGED pair
               /\ refreshing' = (refreshing /\ ~Renewing(t))
      BY <2>1, <2>2, <2>6, SettleKeeps
    <2> QED BY <1>3, <2>4, <2>5, <2>6 DEF OnRefresh
  <1>4. CASE OnRetry(t)
    <2>1. /\ Arrived(t, "retry") /\ "retry" \in Legs /\ UNCHANGED <<asked, pair>>
          /\ refreshing' = FALSE /\ Settle(t, Status(t))
      BY <1>4 DEF OnRetry, Legs
    <2>2. /\ Quiet(t) /\ step[t] = "retry" /\ Status(t) \in {"ok", "401", "422", "500"}
          /\ Status(t) = code[<<t, "retry">>]
      BY <2>1, ArrivedFacts
    <2>3. Renewing(t)
      BY <2>2 DEF SdkInv, ClientInv, Itinerary, Along, Renewing
    <2>4. refreshing' = (refreshing /\ ~Renewing(t))
      BY <2>1, <2>3
    <2> QED BY <2>1, <2>2, <2>4, SettleKeeps
  <1>5. CASE GiveUp(t)
    BY <1>5, SettleKeeps DEF GiveUp
  <1> QED BY <1>1, <1>2, <1>3, <1>4, <1>5 DEF React

LEMMA ClientStart == Init => SdkInv
  <1> SUFFICES ASSUME Init PROVE SdkInv
    OBVIOUS
  <1>1. ServerInv
    BY ServerStart DEF Init
  <1>2. \A c \in Call : pc[c] = "idle" /\ code[c] = "none" /\ granted[c] = NoToken
    BY DEF Init, SessionsInit
  <1>3. \A t \in Task, leg \in Legs : ~Sent(t, leg)
    BY <1>2, SdkAssumption DEF Sent
  <1>4. \A t \in Task : asked[t] = NoWish /\ step[t] = "idle" /\ result[t] = "none"
    BY DEF Init
  <1>5. ClientTypes
    BY DEF Init, ClientTypes, Held
  <1>6. Itinerary
    BY <1>2, <1>3, <1>4, SdkAssumption DEF Itinerary, Along, Legs, Sent, Handling
  <1>7. OneRefreshAtATime
    BY <1>4 DEF Init, OneRefreshAtATime, Renewing
  <1>8. Outcomes /\ Unseen
    BY <1>3, <1>4 DEF Outcomes, Unseen, Coming, Legs
  <1> QED BY <1>1, <1>5, <1>6, <1>7, <1>8 DEF SdkInv, ClientInv

(* Every step of the client or the server keeps the invariant, and is a    *)
(* step of the server's specification, or none of its business.            *)
LEMMA ClientStep == SdkInv /\ [Next]_vars => SdkInv' /\ [SessionsNext]_server
  <1> SUFFICES ASSUME SdkInv, [Next]_vars
               PROVE  ClientInv' /\ [SessionsNext]_server
    BY ServerStep DEF SdkInv
  <1>1. CASE Serve
    <2>1. SessionsNext
      BY <1>1 DEF Serve, SessionsNext
    <2> QED BY <1>1, <2>1, ServeKeeps
  <1>2. ASSUME NEW t \in Task, Begin(t) PROVE ClientInv' /\ [SessionsNext]_server
    BY <1>2, BeginKeeps
  <1>3. ASSUME NEW t \in Task, React(t) PROVE ClientInv' /\ [SessionsNext]_server
    BY <1>3, ReactKeeps
  <1>4. CASE UNCHANGED vars
    <2>1. UNCHANGED server /\ UNCHANGED client
      BY <1>4 DEF vars
    <2> USE DEF server, client
    <2>2. ClientTypes' /\ Outcomes' /\ Unseen'
      BY <2>1 DEF SdkInv, ClientInv, ClientTypes, Outcomes, Unseen, Coming, Sent, Held
    <2>3. Itinerary'
      BY <2>1 DEF SdkInv, ClientInv, Itinerary, Along, Sent
    <2>4. OneRefreshAtATime'
      BY <2>1 DEF SdkInv, ClientInv, OneRefreshAtATime, Renewing
    <2> QED BY <2>1, <2>2, <2>3, <2>4 DEF ClientInv
  <1> QED BY <1>1, <1>2, <1>3, <1>4 DEF Next

LEMMA SdkInvariant == Spec => []SdkInv
  <1>1. SdkInv /\ [Next]_vars => SdkInv'
    BY ClientStep
  <1> QED BY <1>1, ClientStart, PTL DEF Spec

(* Type correctness of the client, and of the sessions under it.           *)
THEOREM SdkTypes == Spec => []TypeOK
  <1>1. SdkInv => TypeOK
    <2>1. ServerInv => Held \subseteq Token
      BY SessionsAssumption DEF Held, ServerInv, SessionsTypeOK
    <2> QED BY <2>1 DEF SdkInv, ClientInv, ClientTypes, TypeOK, ServerInv
  <1> QED BY <1>1, SdkInvariant, PTL

(* The flag is set exactly while one call is between its 401 and the end   *)
(* of its retry, and no two calls ever are.                                *)
THEOREM OneRefresh == Spec => []OneRefreshAtATime
  <1>1. SdkInv => OneRefreshAtATime
    BY DEF SdkInv, ClientInv
  <1> QED BY <1>1, SdkInvariant, PTL

(* However many calls share the client, whatever is lost, late or          *)
(* refreshed, the server carries a call out once at most, and once if the  *)
(* caller is told that it succeeded.                                       *)
THEOREM NothingIsDoneTwice == Spec => []CarriedOutOnce
  <1>1. SdkInv => CarriedOutOnce
    <2> SUFFICES ASSUME SdkInv, NEW t \in Task
                 PROVE  /\ Cardinality(CarriedOut(t)) <= 1
                        /\ result[t] = "ok" /\ asked[t].kind \in {"call", "raw"} =>
                             CarriedOut(t) # {}
      BY DEF CarriedOutOnce
    <2>1. <<t, "send">> \in Call /\ <<t, "retry">> \in Call
      BY SdkAssumption DEF Legs
    <2>2. ~(code[<<t, "send">>] = "ok" /\ code[<<t, "retry">>] = "ok")
      BY <2>1 DEF SdkInv, ServerInv, Routed, ClientInv, Outcomes, Sent
    <2>3. CarriedOut(t) = {} \/ \E leg \in {"send", "retry"} : CarriedOut(t) = {leg}
      BY <2>2 DEF CarriedOut
    <2>4. Cardinality(CarriedOut(t)) <= 1
      <3>1. CASE CarriedOut(t) = {}
        <4>1. Cardinality(CarriedOut(t)) = 0
          BY <3>1, FS_EmptySet
        <4> QED BY <4>1
      <3>2. ASSUME NEW leg \in {"send", "retry"}, CarriedOut(t) = {leg}
            PROVE  Cardinality(CarriedOut(t)) <= 1
        <4>1. Cardinality({leg}) = 1
          BY FS_Singleton
        <4> QED BY <3>2, <4>1
      <3> QED BY <2>3, <3>1, <3>2
    <2>5. result[t] = "ok" /\ asked[t].kind \in {"call", "raw"} => CarriedOut(t) # {}
      BY DEF SdkInv, ClientInv, Outcomes, CarriedOut
    <2> QED BY <2>4, <2>5
  <1> QED BY <1>1, SdkInvariant, PTL

(* The pair the client holds is only ever rotated under it by an exchange  *)
(* of its own whose answer it waits for, was refused, or did not wait for. *)
THEOREM TheSessionIsKept == Spec => []NotStranded
  <1>1. SdkInv => NotStranded
    <2> SUFFICES ASSUME SdkInv, pair # NoToken, token[pair] = "revoked"
                 PROVE  \E c \in Task \X Legs :
                          /\ Exchanges(c)
                          /\ \/ step[c[1]] = c[2]
                             \/ code[c] \in {"500", "lost"} \/ result[c[1]] = "timeout"
      BY DEF NotStranded
    <2> USE DEF SdkInv, ClientInv
    <2>1. pair \in Token
      BY SdkInv, SessionsAssumption
         DEF ClientTypes, Held, ServerInv, SessionsTypeOK
    <2>2. PICK c \in Call : /\ op[c].kind = "refresh" /\ op[c].token = pair
                            /\ pc[c] = "issue" \/ granted[c] # NoToken \/ code[c] \in {"500", "lost"}
      BY <2>1 DEF ServerInv, Rotated, NoSessionLostQuietly
    <2>3. pc[c] # "idle"
      BY <2>2 DEF ServerInv, Routed, NoCall
    <2>4. PICK t \in Task, leg \in Legs : c = <<t, leg>>
      BY <2>3 DEF Itinerary
    <2>5. Along(t) /\ Sent(t, leg)
      BY <2>3, <2>4 DEF Itinerary, Sent
    <2>6. leg = "refresh"
      BY <2>2, <2>4, <2>5 DEF Along, Legs
    <2>7. CASE pc[c] = "issue"
      BY <2>2, <2>4, <2>5, <2>7 DEF Along, Handling, Exchanges
    <2>8. CASE granted[c] # NoToken
      <3>1. code[c] = "ok"
        BY <2>2, <2>8 DEF ServerInv, Routed
      <3>2. step[t] = "refresh" \/ result[t] = "timeout"
        BY <2>2, <2>4, <2>5, <2>6, <3>1 DEF Unseen
      <3> QED BY <2>2, <2>4, <2>6, <3>2 DEF Exchanges
    <2>9. CASE code[c] \in {"500", "lost"}
      BY <2>2, <2>4, <2>9 DEF Exchanges
    <2> QED BY <2>2, <2>7, <2>8, <2>9
  <1> QED BY <1>1, SdkInvariant, PTL

(* What the client does to the sessions is a behaviour of Sessions: every  *)
(* request it sends is one the server's specification allows.              *)
THEOREM SdkImplementsSessions == Spec => SessionsSpec
  <1>1. Init => SessionsInit
    BY DEF Init
  <1>2. SdkInv /\ [Next]_vars => [SessionsNext]_server
    BY ClientStep
  <1> QED BY <1>1, <1>2, SdkInvariant, PTL DEF Spec, SessionsSpec, server

=============================================================================
