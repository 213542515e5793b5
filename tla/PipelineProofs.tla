--------------------------- MODULE PipelineProofs ---------------------------
(***************************************************************************)
(* Theorems about Pipeline, for every set of requests, endpoints and ports. *)
(***************************************************************************)
EXTENDS Pipeline, TLAPS

Requested ==
    [endpoint : DOMAIN Routes, token : {"root", "bad", None} \cup Members,
     filter : {None, "invalid"}, body : BOOLEAN, password : BOOLEAN]

Absent   == {"idle", "reserved"}
Ended    == {"caught", "answered"}
AtWork   == {"handler", "check", "pinging", "returned"}
PastRole == {"local", "credentials", "log", "pipe"} \cup AtWork

Refused(r) == RouteOf(r).method = "GET" /\ call[r].filter = "invalid"

Known(r) == RouteOf(r).skipJwt \/ call[r].token \notin {None, "bad"}

Admitted(r) == RouteOf(r).skipJwt \/ call[r].token \in RouteOf(r).roles \cup {"root"}

LoggedIn(r) == call[r].endpoint = "login" => call[r].body /\ call[r].password

Returned(r) == outcome[r] # None /\ "value" \in DOMAIN outcome[r]

\* A response to r that StatusTellsCause, EffectReported and
\* OwnValidationErrors allow.
Caused(r, status) ==
    LET c == call[r]
    IN  /\ status = 401 => \/ ~Known(r)
                           \/ c.endpoint = "login" /\ ~c.password
                           \/ c.endpoint = "refreshToken" /\ outcome[r] # None
        /\ status = 403 => Known(r) /\ ~Admitted(r)
        /\ status = 500 => \/ outcome[r] # None
                           \/ c.endpoint = "login" /\ c.body
                           \/ c.endpoint \in {"unknown", "unreadable"}
        /\ ~Known(r) => status = IF c.filter = "invalid" THEN 400 ELSE 401
        /\ status = 503 => c.endpoint = "check"

Right(r, response) ==
    /\ Caused(r, response.status)
    /\ response.success => Returned(r)
    /\ Returned(r) /\ RouteOf(r).method # "GET" => response.success
    /\ response.code = "validationError" => response.content = r

\* What is known of a request at each stage.
Passed(r) ==
    /\ stage[r] \notin Absent =>
         /\ call[r] \in Requested
         /\ RouteOf(r).method # "GET" => call[r].filter = None
    /\ stage[r] \notin Absent \cup Ended =>
         ~Refused(r) /\ call[r].endpoint \notin {"unknown", "unreadable"}
    /\ stage[r] \in {"role"} \cup PastRole => Known(r)
    /\ stage[r] = "role" /\ ~RouteOf(r).skipJwt => user[r] = call[r].token
    /\ stage[r] \in PastRole => Admitted(r)
    /\ stage[r] \in {"local", "credentials"} => call[r].endpoint = "login"
    /\ stage[r] = "credentials" => call[r].body
    /\ stage[r] \in {"log", "pipe"} \cup AtWork => LoggedIn(r)
    /\ stage[r] \in AtWork => (RouteOf(r).body => call[r].body)
    /\ stage[r] = "handler" => call[r].endpoint # "check"
    /\ stage[r] \in {"check", "pinging"} => call[r].endpoint = "check"
    /\ stage[r] \notin {"returned"} \cup Ended => outcome[r] = None
    /\ outcome[r] # None =>
         Admitted(r) /\ LoggedIn(r) /\ (RouteOf(r).body => call[r].body)
    /\ Returned(r) /\ outcome[r].value = "null" => RouteOf(r).method = "GET"
    /\ stage[r] = "returned" => Returned(r)
    /\ stage[r] = "caught" =>
         /\ thrown[r] \in Exceptions /\ ErrorResponse(thrown[r]) \in Responses
         /\ Right(r, ErrorResponse(thrown[r]))
    /\ stage[r] = "answered" => answer[r] \in Responses /\ Right(r, answer[r])
    /\ stage[r] # "answered" => answer[r] = None

\* A health check that has still to send its ping.
Checking(r) ==
    stage[r] \in {"jwt", "role", "log", "pipe", "check"} /\ call[r].endpoint = "check"

\* It has the request to send to itself, and a check that returned had it
\* answered.
Pinging(r) ==
    /\ Checking(r) =>
         /\ ping[r] \in Requests /\ stage[ping[r]] = "reserved"
         /\ \A q \in Requests : Checking(q) /\ ping[q] = ping[r] => q = r
    /\ stage[r] = "pinging" => port = ListenPort /\ ping[r] \in Requests
    /\ Returned(r) /\ call[r].endpoint = "check" =>
         /\ port = ListenPort /\ ping[r] \in Requests
         /\ answer[ping[r]] # None /\ answer[ping[r]].success

\* The request has a log id of its own.
Numbered(r) == stage[r] \notin Absent /\ call[r].endpoint # "unreadable"

\* The log id is of the request that arrived last.
Labelled ==
    LET n == Len(arrived)
    IN  /\ arrived \in Seq(Requests)
        /\ \A i, j \in 1 .. n : arrived[i] = arrived[j] => i = j
        /\ \A i \in 1 .. n : Numbered(arrived[i])
        /\ \A r \in Requests : Numbered(r) => \E i \in 1 .. n : arrived[i] = r
        /\ n = 0 => logId = None
        /\ n > 0 => logId = arrived[n]
        /\ \A line \in lines :
              /\ line \in (Requests \cup {None}) \X Requests /\ stage[line[2]] \notin Absent
              /\ Numbered(line[2]) =>
                    \E i, j \in 1 .. n : arrived[i] = line[1] /\ arrived[j] = line[2] /\ i >= j

PipelineInv ==
    /\ stage \in [Requests -> Stages]
    /\ user \in [Requests -> {"root", None} \cup Members]
    /\ DOMAIN call = Requests /\ DOMAIN outcome = Requests /\ DOMAIN thrown = Requests
    /\ DOMAIN answer = Requests /\ DOMAIN ping = Requests
    /\ contents \in Requests \cup {None}
    /\ \A r \in Requests : Passed(r) /\ Pinging(r)
    /\ Labelled
-----------------------------------------------------------------------------
(***************************************************************************)
(* Lemmas about the routes and about the responses to exceptions.          *)
(***************************************************************************)
LEMMA RouteFields ==
    ASSUME NEW method, NEW roles, NEW body
    PROVE  LET route == Route(method, roles, body)
           IN  /\ route.method = method /\ route.skipJwt = (roles = {})
               /\ route.roles = roles /\ route.body = body
BY DEF Route

LEMMA RouteFacts ==
    /\ {"login", "refreshToken", "check", "ping", "unknown", "unreadable"} \cup ReturnsNull
         \subseteq DOMAIN Routes
    /\ \A e \in DOMAIN Routes :
         /\ Routes[e].method \in {"GET", "POST", "PUT", "DELETE"}
         /\ Routes[e].skipJwt <=> Routes[e].roles = {}
         /\ Routes[e].roles \subseteq Members /\ Routes[e].body \in BOOLEAN
    /\ \A e \in ReturnsNull \cup {"check", "ping", "unknown"} : Routes[e].method = "GET"
    /\ \A e \in {"login", "refreshToken", "check", "ping", "unknown", "unreadable"} :
         Routes[e].skipJwt
    /\ ~Routes["check"].body /\ ~Routes["ping"].body /\ ~Routes["login"].body
    /\ Routes["login"].method # "GET" /\ Routes["refreshToken"].method # "GET"
    /\ Routes["unreadable"].method # "GET" /\ ~Routes["unreadable"].body
<1>1. DOMAIN Routes = {"login", "register", "refreshToken", "revokeToken", "getProfile",
                      "updateProfile", "changePassword", "findAll", "findByUserId",
                      "findById", "create", "updateById", "delete", "check", "ping",
                      "unknown", "unreadable"}
  <2>1. \A f, g : DOMAIN (f ++ g) = DOMAIN f \cup DOMAIN g
    BY DEF ++
  <2>2. /\ DOMAIN AuthRoutes = {"login", "register"}
        /\ DOMAIN RefreshTokenRoutes = {"refreshToken", "revokeToken"}
        /\ DOMAIN UserRoutes = {"getProfile", "updateProfile", "changePassword"}
        /\ DOMAIN CrudRoutes = {"findAll", "findByUserId", "findById", "create",
                                "updateById", "delete"}
        /\ DOMAIN HealthRoutes = {"check", "ping"}
        /\ DOMAIN [unknown |-> Route("GET", {}, FALSE), unreadable |-> Route("POST", {}, FALSE)]
             = {"unknown", "unreadable"}
    BY DEF AuthRoutes, RefreshTokenRoutes, UserRoutes, CrudRoutes, HealthRoutes
  <2> DEFINE others ==
          [unknown |-> Route("GET", {}, FALSE), unreadable |-> Route("POST", {}, FALSE)]
  <2>3. Routes = AuthRoutes ++ RefreshTokenRoutes ++ UserRoutes ++ CrudRoutes ++ HealthRoutes
                   ++ others
    BY DEF Routes
  <2> HIDE DEF others
  <2>4. DOMAIN Routes = ((((DOMAIN AuthRoutes \cup DOMAIN RefreshTokenRoutes)
                             \cup DOMAIN UserRoutes) \cup DOMAIN CrudRoutes)
                             \cup DOMAIN HealthRoutes) \cup DOMAIN others
    <3> DEFINE ar == AuthRoutes ++ RefreshTokenRoutes
               aru == ar ++ UserRoutes
               aruc == aru ++ CrudRoutes
               aruch == aruc ++ HealthRoutes
    <3>1. DOMAIN ar = DOMAIN AuthRoutes \cup DOMAIN RefreshTokenRoutes
      BY <2>1
    <3>2. DOMAIN aru = DOMAIN ar \cup DOMAIN UserRoutes
      BY <2>1
    <3>3. DOMAIN aruc = DOMAIN aru \cup DOMAIN CrudRoutes
      BY <2>1
    <3>4. DOMAIN aruch = DOMAIN aruc \cup DOMAIN HealthRoutes
      BY <2>1
    <3>5. DOMAIN (aruch ++ others) = DOMAIN aruch \cup DOMAIN others
      BY <2>1
    <3>6. Routes = aruch ++ others
      BY <2>3
    <3> HIDE DEF ar, aru, aruc, aruch
    <3>7. QED
      BY <3>1, <3>2, <3>3, <3>4, <3>5, <3>6
  <2>5. QED
    BY <2>2, <2>4 DEF others
<1>2. /\ Routes["login"] = Route("POST", {}, FALSE)
      /\ Routes["register"] = Route("POST", {}, TRUE)
      /\ Routes["refreshToken"] = Route("POST", {}, TRUE)
      /\ Routes["revokeToken"] = Route("DELETE", {"admin"}, TRUE)
  BY DEF Routes, AuthRoutes, RefreshTokenRoutes, UserRoutes, CrudRoutes, HealthRoutes, ++
<1>3. /\ Routes["getProfile"] = Route("GET", Members, FALSE)
      /\ Routes["updateProfile"] = Route("PUT", Members, TRUE)
      /\ Routes["changePassword"] = Route("PUT", Members, TRUE)
  BY DEF Routes, AuthRoutes, RefreshTokenRoutes, UserRoutes, CrudRoutes, HealthRoutes, ++
<1>4. /\ Routes["findAll"] = Route("GET", {"admin"}, FALSE)
      /\ Routes["findByUserId"] = Route("GET", Members, FALSE)
      /\ Routes["findById"] = Route("GET", Members, FALSE)
      /\ Routes["create"] = Route("POST", Members, TRUE)
      /\ Routes["updateById"] = Route("PUT", Members, TRUE)
      /\ Routes["delete"] = Route("DELETE", Members, FALSE)
  BY DEF Routes, AuthRoutes, RefreshTokenRoutes, UserRoutes, CrudRoutes, HealthRoutes, ++
<1>5. /\ Routes["check"] = Route("GET", {}, FALSE)
      /\ Routes["ping"] = Route("GET", {}, FALSE)
      /\ Routes["unknown"] = Route("GET", {}, FALSE)
      /\ Routes["unreadable"] = Route("POST", {}, FALSE)
  BY DEF Routes, AuthRoutes, RefreshTokenRoutes, UserRoutes, CrudRoutes, HealthRoutes, ++
<1>6. ASSUME NEW e \in DOMAIN Routes
      PROVE  /\ Routes[e].method \in {"GET", "POST", "PUT", "DELETE"}
             /\ Routes[e].skipJwt <=> Routes[e].roles = {}
             /\ Routes[e].roles \subseteq Members /\ Routes[e].body \in BOOLEAN
  <2>1. PICK method \in {"GET", "POST", "PUT", "DELETE"}, body \in BOOLEAN,
             roles \in {{}, {"admin"}, Members} : Routes[e] = Route(method, roles, body)
    BY <1>1, <1>2, <1>3, <1>4, <1>5, <1>6
  <2>2. /\ Routes[e].method = method /\ Routes[e].roles = roles
        /\ Routes[e].skipJwt = (roles = {}) /\ Routes[e].body = body
    BY <2>1, RouteFields
  <2>3. QED
    BY <2>2 DEF Members
<1>7. \A e \in ReturnsNull \cup {"check", "ping", "unknown"} :
          e \in DOMAIN Routes /\ Routes[e].method = "GET"
  BY <1>1, <1>3, <1>4, <1>5 DEF ReturnsNull, Route
<1>8. \A e \in {"login", "refreshToken", "check", "ping", "unknown", "unreadable"} :
         e \in DOMAIN Routes /\ Routes[e].skipJwt
  <2>1. \A e \in {"login", "refreshToken", "check", "ping", "unknown", "unreadable"} :
            Routes[e].roles = {}
    BY <1>2, <1>5 DEF Route
  <2>2. QED
    BY <1>1, <1>6, <2>1
<1>9. /\ ~Routes["check"].body /\ ~Routes["ping"].body /\ ~Routes["login"].body
      /\ Routes["login"].method # "GET" /\ Routes["refreshToken"].method # "GET"
      /\ Routes["unreadable"].method # "GET" /\ ~Routes["unreadable"].body
  BY <1>2, <1>5 DEF Route
<1>10. QED
  BY <1>6, <1>7, <1>8, <1>9

LEMMA ExceptionFields ==
    ASSUME NEW class \in {"custom", "unauthorized", "forbidden", "unavailable", "other"},
           NEW status \in Nat, NEW message \in Messages \cup {None},
           NEW content \in Requests \cup {None}
    PROVE  LET e == [class |-> class, status |-> status, message |-> message,
                     content |-> content]
           IN  /\ e \in Exceptions /\ e.class = class /\ e.status = status
               /\ e.message = message /\ e.content = content
BY DEF Exceptions

LEMMA ResponseFields ==
    ASSUME NEW status \in Nat, NEW content \in Requests \cup {None},
           NEW code \in Messages \cup {"UNAUTHORIZED", "FORBIDDEN", "SERVICE_UNAVAILABLE",
                                     "INTERNAL_SERVER_ERROR"}
    PROVE  LET response == [success |-> FALSE, status |-> status, code |-> code,
                            content |-> content]
           IN  /\ response \in Responses /\ response.success = FALSE
               /\ response.status = status /\ response.code = code
               /\ response.content = content
BY DEF Responses

\* ErrorFilter makes of the exception e a response with this status.
AnsweredWith(e, status) ==
    LET response == ErrorResponse(e)
    IN  /\ e \in Exceptions /\ response \in Responses
        /\ response.success = FALSE /\ response.status = status

Code(e) == ErrorResponse(e).code

LEMMA AnsweredFields ==
    ASSUME NEW e \in Exceptions, NEW status \in Nat, NEW content \in Requests \cup {None},
           NEW code \in Messages \cup {"UNAUTHORIZED", "FORBIDDEN", "SERVICE_UNAVAILABLE",
                                     "INTERNAL_SERVER_ERROR"},
           ErrorResponse(e) = [success |-> FALSE, status |-> status, code |-> code,
                               content |-> content]
    PROVE  AnsweredWith(e, status) /\ Code(e) = code /\ ErrorResponse(e).content = content
BY ResponseFields DEF AnsweredWith, Code

LEMMA CustomError ==
    ASSUME NEW status \in Nat, NEW message \in Messages
    PROVE  AnsweredWith(Custom(status, message), status)
             /\ Code(Custom(status, message)) = message
<1>1. /\ Custom(status, message) = [class |-> "custom", status |-> status,
                                    message |-> message, content |-> None]
      /\ Custom(status, message) \in Exceptions
  BY ExceptionFields DEF Custom, Exception
<1>2. ErrorResponse(Custom(status, message)) =
          [success |-> FALSE, status |-> status, code |-> message, content |-> None]
  BY <1>1 DEF ErrorResponse, ContentOf
<1>3. QED
  BY <1>1, <1>2, AnsweredFields

LEMMA UnauthorizedError ==
    ASSUME NEW message \in {None, "accessTokenIsMissing", "invalidCredentials"}
    PROVE  AnsweredWith(Unauthorized(message), 401)
             /\ Code(Unauthorized(message)) # "validationError"
<1> DEFINE e == Unauthorized(message)
           code == ErrorMessage(e)
<1>1. /\ e = [class |-> "unauthorized", status |-> 401, message |-> message,
              content |-> None]
      /\ message \in Messages \cup {None} /\ message # "validationError"
  BY NoneIsNoValue DEF Unauthorized, Exception, Messages
<1>2. code \in Messages \cup {"UNAUTHORIZED"} /\ code # "validationError"
  BY <1>1, NoneIsNoValue DEF ErrorMessage
<1>3. ErrorResponse(e) = [success |-> FALSE, status |-> 401, code |-> code,
                          content |-> None]
  BY <1>1 DEF ErrorResponse, ContentOf
<1>4. e \in Exceptions
  BY <1>1, ExceptionFields
<1> HIDE DEF code, e
<1>5. QED
  BY <1>2, <1>3, <1>4, AnsweredFields DEF e

LEMMA ForbiddenError == AnsweredWith(Forbidden, 403) /\ Code(Forbidden) # "validationError"
<1>1. Forbidden = [class |-> "forbidden", status |-> 403, message |-> None, content |-> None]
  BY DEF Forbidden, Exception
<1>2. ErrorResponse(Forbidden) =
          [success |-> FALSE, status |-> 403, code |-> "FORBIDDEN", content |-> None]
  BY <1>1, NoneIsNoValue DEF ErrorMessage, ErrorResponse, ContentOf
<1>3. QED
  BY <1>1, <1>2, ExceptionFields, AnsweredFields

LEMMA UnavailableError ==
    AnsweredWith(Unavailable.exception, 503)
      /\ Code(Unavailable.exception) # "validationError"
<1> DEFINE e == Unavailable.exception
<1>1. e = [class |-> "unavailable", status |-> 503, message |-> None, content |-> None]
  BY DEF Unavailable, Exception
<1> HIDE DEF e
<1>2. ErrorMessage(e) = "SERVICE_UNAVAILABLE"
  BY <1>1, NoneIsNoValue DEF ErrorMessage
<1>3. /\ e.class # "other" /\ e.class # "custom" /\ e.status = 503 /\ e.content = None
  BY <1>1
<1>4. ErrorResponse(e) = [success |-> FALSE, status |-> 503, code |-> "SERVICE_UNAVAILABLE",
                          content |-> None]
  BY <1>2, <1>3 DEF ErrorResponse, ContentOf
<1>5. QED
  BY <1>1, <1>4, ExceptionFields, AnsweredFields DEF e

LEMMA OtherError ==
    ASSUME NEW e \in {Failure, Unrouted}
    PROVE  AnsweredWith(e, 500) /\ Code(e) # "validationError"
<1>1. PICK status \in Nat :
          e = [class |-> "other", status |-> status, message |-> None, content |-> None]
  BY DEF Failure, Unrouted, Exception
<1>2. ErrorResponse(e) =
          [success |-> FALSE, status |-> 500, code |-> "INTERNAL_SERVER_ERROR",
           content |-> None]
  BY <1>1 DEF ErrorResponse, ContentOf
<1>3. QED
  BY <1>1, <1>2, ExceptionFields, AnsweredFields

LEMMA InvalidError ==
    ASSUME NEW r \in Requests
    PROVE  AnsweredWith(Invalid(r), 400) /\ ErrorResponse(Invalid(r)).content = r
<1>1. /\ Invalid(r) = [class |-> "custom", status |-> 400, message |-> "validationError",
                       content |-> r]
      /\ "validationError" \in Messages
  BY DEF Invalid, Custom, Exception, Messages
<1>2. ErrorResponse(Invalid(r)) =
          [success |-> FALSE, status |-> 400, code |-> "validationError", content |-> r]
  BY <1>1 DEF ErrorResponse, ContentOf
<1>3. QED
  BY <1>1, <1>2, ExceptionFields, AnsweredFields

\* What a handler throws.
LEMMA HandlerError ==
    ASSUME NEW endpoint \in DOMAIN Routes, NEW e \in Throws(endpoint) \cup {Failure}
    PROVE  /\ \E status \in {400, 401, 404, 409, 500} :
                AnsweredWith(e, status) /\ (status = 401 => endpoint = "refreshToken")
           /\ Code(e) # "validationError"
<1>1. \/ e = Failure
      \/ e = Unauthorized("invalidCredentials") /\ endpoint = "refreshToken"
      \/ \E status \in {400, 404, 409, 500}, m \in Messages \ {"validationError"} :
            e = Custom(status, m)
  BY DEF Throws, SignFailed, NotFound, RefreshThrows, ChangeThrows, Messages
<1>2. QED
  BY <1>1, OtherError, UnauthorizedError, CustomError
-----------------------------------------------------------------------------
(***************************************************************************)
(* Passed: what guards, pipe and handler have let through.                 *)
(***************************************************************************)
LEMMA SameCall ==
    ASSUME NEW r \in Requests, call'[r] = call[r]
    PROVE  /\ RouteOf(r)' = RouteOf(r) /\ Known(r)' = Known(r) /\ Admitted(r)' = Admitted(r)
           /\ LoggedIn(r)' = LoggedIn(r) /\ Refused(r)' = Refused(r)
BY DEF RouteOf, Known, Admitted, LoggedIn, Refused

LEMMA SameOutcome ==
    ASSUME NEW r \in Requests, outcome'[r] = outcome[r]
    PROVE  Returned(r)' = Returned(r)
BY DEF Returned

\* A request that another one's step leaves alone.
LEMMA SamePassed ==
    ASSUME NEW r \in Requests, Passed(r), stage'[r] = stage[r], call'[r] = call[r],
           user'[r] = user[r], outcome'[r] = outcome[r], thrown'[r] = thrown[r],
           answer'[r] = answer[r]
    PROVE  Passed(r)'
<1>1. stage[r] = "caught" => Right(r, ErrorResponse(thrown[r]))'
  BY SameCall, SameOutcome DEF Passed, Right, Caused
<1>2. stage[r] = "answered" => Right(r, answer[r])'
  BY SameCall, SameOutcome DEF Passed, Right, Caused
<1>3. QED
  BY <1>1, <1>2, SameCall, SameOutcome DEF Passed

\* A request that ends in an exception.
LEMMA ThrowPasses ==
    ASSUME NEW r \in Requests, NEW e, NEW status,
           stage'[r] = "caught", thrown'[r] = e, answer'[r] = None,
           AnsweredWith(e, status), Caused(r, status)',
           Code(e) = "validationError" => ErrorResponse(e).content = r,
           call'[r] \in Requested, RouteOf(r)'.method # "GET" => call'[r].filter = None,
           Returned(r)' => RouteOf(r)'.method = "GET",
           outcome'[r] # None => Admitted(r)' /\ LoggedIn(r)'
                                   /\ (RouteOf(r)'.body => call'[r].body)
    PROVE  Passed(r)'
<1>1. /\ thrown'[r] \in Exceptions /\ ErrorResponse(thrown'[r]) \in Responses
      /\ Right(r, ErrorResponse(thrown[r]))'
  BY DEF AnsweredWith, Code, Right
<1>2. QED
  BY <1>1 DEF Passed, Absent, Ended, PastRole, AtWork

LEMMA ArrivePasses ==
    ASSUME PipelineInv, NEW r \in Requests, Arrive(r)
    PROVE  Passed(r)'
<1>1. PICK c \in Calls : Sensible(c) /\ Middlewares(r, c) /\ stage[r] = "idle"
  BY DEF Arrive
<1>2. /\ c \in Requested /\ (Routes[c.endpoint].method # "GET" => c.filter = None)
      /\ c.endpoint \in DOMAIN Routes /\ c.endpoint # "unreadable"
  BY <1>1, EndpointsAssumption, RouteFacts DEF Calls, Call, Sensible, Requested
<1>3. /\ call'[r] = c /\ RouteOf(r)' = Routes[c.endpoint] /\ outcome'[r] = None
      /\ answer'[r] = None /\ ~Returned(r)'
  BY <1>1 DEF PipelineInv, Passed, Middlewares, RouteOf, Returned, Ended
<1>4. None # "invalid"
  BY NoneIsNoValue
<1>5. CASE Routes[c.endpoint].method = "GET" /\ c.filter = "invalid"
  <2>1. stage'[r] = "caught" /\ thrown'[r] = Custom(400, "invalidFilter")
    BY <1>1, <1>5 DEF Middlewares, FilterRefused, Throw, GoTo, PipelineInv
  <2>2. /\ AnsweredWith(Custom(400, "invalidFilter"), 400)
        /\ Code(Custom(400, "invalidFilter")) # "validationError"
    BY CustomError DEF Messages
  <2>3. Caused(r, 400)'
    BY <1>3, <1>5 DEF Caused
  <2>4. QED
    BY <1>2, <1>3, <2>1, <2>2, <2>3, ThrowPasses
<1>6. CASE /\ ~(Routes[c.endpoint].method = "GET" /\ c.filter = "invalid")
           /\ c.endpoint = "unknown"
  <2>1. stage'[r] = "caught" /\ thrown'[r] = Unrouted
    BY <1>1, <1>6 DEF Middlewares, Throw, GoTo, PipelineInv
  <2>2. Known(r)'
    BY <1>3, <1>6, RouteFacts DEF Known
  <2>3. Caused(r, 500)'
    BY <1>3, <1>6, <2>2 DEF Caused
  <2>4. QED
    BY <1>2, <1>3, <2>1, <2>3, ThrowPasses, OtherError
<1>7. CASE /\ ~(Routes[c.endpoint].method = "GET" /\ c.filter = "invalid")
           /\ c.endpoint # "unknown"
  <2>1. stage'[r] = "jwt"
    BY <1>1, <1>7 DEF Middlewares, Pass, GoTo, PipelineInv
  <2>2. QED
    BY <1>2, <1>3, <1>4, <1>7, <2>1
    DEF Passed, Absent, Ended, PastRole, AtWork, Refused
<1>8. QED
  BY <1>5, <1>6, <1>7

\* A health check that arrives, or the ping of one.
LEMMA CheckPasses ==
    ASSUME PipelineInv, NEW r \in Requests, stage[r] \in Absent, NEW e \in {"check", "ping"},
           call'[r] = Call(e, None, None, TRUE, TRUE), stage'[r] = "jwt",
           outcome'[r] = outcome[r], answer'[r] = answer[r]
    PROVE  Passed(r)'
<1>1. /\ call'[r] \in Requested /\ call'[r].filter = None /\ call'[r].endpoint = e
  BY RouteFacts DEF Call, Requested
<1>2. outcome'[r] = None /\ answer'[r] = None
  BY DEF PipelineInv, Passed, Absent, Ended
<1>3. None # "invalid"
  BY NoneIsNoValue
<1>4. QED
  BY <1>1, <1>2, <1>3 DEF Passed, Absent, Ended, PastRole, AtWork, Refused, Returned

LEMMA GuardsPass ==
    ASSUME PipelineInv, NEW r \in Requests, JwtGuard(r) \/ RoleGuard(r)
    PROVE  Passed(r)'
<1>0. /\ Passed(r) /\ stage[r] \in {"jwt", "role"} /\ call' = call /\ outcome' = outcome
      /\ answer' = answer /\ ~Returned(r) /\ ~Returned(r)' /\ outcome'[r] = None
      /\ answer'[r] = None /\ call'[r] \in Requested
      /\ RouteOf(r).method # "GET" => call[r].filter = None
      /\ ~Refused(r) /\ call[r].endpoint \notin {"unknown", "unreadable"}
      /\ call[r].endpoint \in DOMAIN Routes
      /\ DOMAIN stage = Requests /\ DOMAIN thrown = Requests /\ DOMAIN user = Requests
  BY DEF PipelineInv, Passed, JwtGuard, RoleGuard, Absent, Ended, Returned, Requested
<1>1. /\ RouteOf(r)' = RouteOf(r) /\ Known(r)' = Known(r) /\ Admitted(r)' = Admitted(r)
      /\ LoggedIn(r)' = LoggedIn(r) /\ Refused(r)' = Refused(r)
  BY <1>0, SameCall
<1>2. None # "invalid"
  BY NoneIsNoValue
<1>3. CASE JwtGuard(r) /\ stage'[r] = "role"
  <2>1. Known(r) /\ (~RouteOf(r).skipJwt => user'[r] = call[r].token)
    BY <1>0, <1>3 DEF JwtGuard, Throw, GoTo, Known
  <2>2. QED
    BY <1>0, <1>1, <1>3, <2>1 DEF Passed, Absent, Ended, PastRole, AtWork
<1>4. CASE JwtGuard(r) /\ stage'[r] # "role"
  <2>1. PICK message \in {None, "accessTokenIsMissing"} :
            stage'[r] = "caught" /\ thrown'[r] = Unauthorized(message) /\ ~Known(r)
    BY <1>0, <1>4 DEF JwtGuard, Throw, Pass, GoTo, Known
  <2>2. call[r].filter # "invalid"
    BY <1>0, <1>2 DEF Refused
  <2>3. Caused(r, 401)'
    BY <1>0, <1>1, <2>1, <2>2 DEF Caused
  <2>4. /\ AnsweredWith(Unauthorized(message), 401)
        /\ Code(Unauthorized(message)) # "validationError"
    BY UnauthorizedError
  <2>5. QED
    BY <1>0, <1>1, <2>1, <2>3, <2>4, ThrowPasses
<1>5. CASE RoleGuard(r) /\ Permitted(user[r], RouteOf(r).roles)
  <2>1. /\ stage[r] = "role"
        /\ stage'[r] = IF call[r].endpoint = "login" THEN "local" ELSE "log"
    BY <1>0, <1>5 DEF RoleGuard, Pass, GoTo
  <2>2. Known(r) /\ Admitted(r)
    BY <1>0, <1>5, <2>1, RouteFacts DEF Passed, Permitted, Admitted, RouteOf
  <2>3. call[r].endpoint # "login" => LoggedIn(r)
    BY DEF LoggedIn
  <2>4. QED
    BY <1>0, <1>1, <2>1, <2>2, <2>3 DEF Passed, Absent, Ended, PastRole, AtWork
<1>6. CASE RoleGuard(r) /\ ~Permitted(user[r], RouteOf(r).roles)
  <2>1. stage[r] = "role" /\ stage'[r] = "caught" /\ thrown'[r] = Forbidden
    BY <1>0, <1>6 DEF RoleGuard, Throw, GoTo
  <2>2. Known(r) /\ ~Admitted(r)
    <3>1. Known(r) /\ RouteOf(r).roles # {}
      BY <1>6, <1>0, <2>1 DEF Passed, Permitted
    <3>2. ~RouteOf(r).skipJwt
      BY <1>0, <3>1, RouteFacts DEF RouteOf
    <3>3. user[r] = call[r].token
      BY <1>0, <2>1, <3>2 DEF Passed
    <3>4. QED
      BY <1>6, <3>1, <3>2, <3>3 DEF Permitted, Admitted
  <2>3. Caused(r, 403)'
    BY <1>1, <2>2 DEF Caused
  <2>4. QED
    BY <1>0, <1>1, <2>1, <2>3, ThrowPasses, ForbiddenError
<1>7. QED
  BY <1>3, <1>4, <1>5, <1>6

LEMMA BodyPasses ==
    ASSUME PipelineInv, NEW r \in Requests,
           LocalGuard(r) \/ Credentials(r) \/ Intercept(r) \/ Pipe(r)
    PROVE  Passed(r)'
<1>0. /\ Passed(r) /\ stage[r] \in {"local", "credentials", "log", "pipe"} /\ call' = call
      /\ outcome' = outcome /\ answer' = answer /\ ~Returned(r) /\ ~Returned(r)'
      /\ outcome'[r] = None /\ answer'[r] = None /\ call'[r] \in Requested
      /\ RouteOf(r).method # "GET" => call[r].filter = None
      /\ ~Refused(r) /\ call[r].endpoint \notin {"unknown", "unreadable"}
      /\ call[r].endpoint \in DOMAIN Routes
      /\ Known(r) /\ Admitted(r)
      /\ DOMAIN stage = Requests /\ DOMAIN thrown = Requests
  BY DEF PipelineInv, Passed, LocalGuard, Credentials, Intercept, Pipe, Absent, Ended,
     PastRole, Returned, Requested
<1>1. /\ RouteOf(r)' = RouteOf(r) /\ Known(r)' = Known(r) /\ Admitted(r)' = Admitted(r)
      /\ LoggedIn(r)' = LoggedIn(r) /\ Refused(r)' = Refused(r)
  BY <1>0, SameCall
<1>2. CASE Refuse(r) /\ stage' = [stage EXCEPT ![r] = "caught"]
  <2>1. stage'[r] = "caught" /\ thrown'[r] = Invalid(r)
    BY <1>0, <1>2 DEF Refuse, Throw, GoTo
  <2>2. Caused(r, 400)'
    BY <1>0, <1>1 DEF Caused
  <2>3. QED
    BY <1>0, <1>1, <2>1, <2>2, ThrowPasses, InvalidError
<1>3. CASE LocalGuard(r) /\ call[r].body
  <2>1. stage[r] = "local" /\ stage'[r] = "credentials"
    BY <1>0, <1>3 DEF LocalGuard, Pass, GoTo
  <2>2. QED
    BY <1>0, <1>1, <1>3, <2>1 DEF Passed, Absent, Ended, PastRole, AtWork
<1>4. CASE Credentials(r) /\ stage'[r] = "log"
  <2>1. stage[r] = "credentials" /\ stage'[r] = "log" /\ call[r].password
    BY <1>0, <1>4 DEF Credentials, Pass, Throw, GoTo
  <2>2. LoggedIn(r)
    BY <1>0, <1>4, <2>1 DEF Passed, LoggedIn
  <2>3. QED
    BY <1>0, <1>1, <1>4, <2>1, <2>2 DEF Passed, Absent, Ended, PastRole, AtWork
<1>5. CASE Credentials(r) /\ ~call[r].password /\ Throw(r, Unauthorized("invalidCredentials"))
  <2>1. /\ stage'[r] = "caught" /\ thrown'[r] = Unauthorized("invalidCredentials")
        /\ call[r].endpoint = "login"
    BY <1>0, <1>5 DEF Credentials, Throw, GoTo, Passed
  <2>2. Caused(r, 401)'
    BY <1>0, <1>1, <1>5, <2>1 DEF Caused
  <2>3. /\ AnsweredWith(Unauthorized("invalidCredentials"), 401)
        /\ Code(Unauthorized("invalidCredentials")) # "validationError"
    BY UnauthorizedError
  <2>4. QED
    BY <1>0, <1>1, <2>1, <2>2, <2>3, ThrowPasses
<1>6. CASE Credentials(r) /\ Throw(r, Failure)
  <2>1. /\ stage'[r] = "caught" /\ thrown'[r] = Failure
        /\ call[r].endpoint = "login" /\ call[r].body
    BY <1>0, <1>6 DEF Credentials, Throw, GoTo, Passed
  <2>2. Caused(r, 500)'
    BY <1>0, <1>1, <2>1 DEF Caused
  <2>3. QED
    BY <1>0, <1>1, <2>1, <2>2, ThrowPasses, OtherError
<1>7. CASE Intercept(r)
  <2>1. stage[r] = "log" /\ stage'[r] = "pipe"
    BY <1>0, <1>7 DEF Intercept, Pass, GoTo
  <2>2. QED
    BY <1>0, <1>1, <2>1 DEF Passed, Absent, Ended, PastRole, AtWork
<1>8. CASE Pipe(r) /\ (RouteOf(r).body => call[r].body)
  <2>1. /\ stage[r] = "pipe"
        /\ stage'[r] = IF call[r].endpoint = "check" THEN "check" ELSE "handler"
    BY <1>0, <1>8 DEF Pipe, Pass, GoTo
  <2>2. QED
    BY <1>0, <1>1, <1>8, <2>1 DEF Passed, Absent, Ended, PastRole, AtWork
<1>9. Credentials(r) => \/ stage'[r] = "log" \/ Throw(r, Failure)
                        \/ ~call[r].password /\ Throw(r, Unauthorized("invalidCredentials"))
  BY <1>0 DEF Credentials, Pass, GoTo
<1>10. QED
  BY <1>0, <1>2, <1>3, <1>4, <1>5, <1>6, <1>7, <1>8, <1>9
  DEF LocalGuard, Pipe, Refuse, Throw, GoTo

\* A handler that returns, and one that throws.
LEMMA DonePasses ==
    ASSUME PipelineInv, NEW r \in Requests, stage[r] \in {"handler", "check", "pinging"},
           NEW result, Done(r, result), call' = call, answer' = answer,
           \/ \E v \in {"value", "null"} :
                /\ result = [value |-> v]
                /\ v = "null" => RouteOf(r).method = "GET"
           \/ \E e \in Exceptions : \E status \in {400, 401, 404, 409, 500, 503} :
                /\ result = [exception |-> e]
                /\ AnsweredWith(e, status) /\ Code(e) # "validationError"
                /\ status = 401 => call[r].endpoint = "refreshToken"
                /\ status = 503 => call[r].endpoint = "check"
    PROVE  Passed(r)' /\ (Returned(r)' => stage'[r] = "returned")
<1>0. /\ Passed(r) /\ answer'[r] = None /\ call'[r] \in Requested
      /\ RouteOf(r).method # "GET" => call[r].filter = None
      /\ ~Refused(r) /\ call[r].endpoint \notin {"unknown", "unreadable"} /\ Known(r)
      /\ Admitted(r)
      /\ LoggedIn(r) /\ (RouteOf(r).body => call[r].body)
      /\ DOMAIN stage = Requests /\ DOMAIN thrown = Requests /\ DOMAIN outcome = Requests
  BY DEF PipelineInv, Passed, Absent, Ended, PastRole, AtWork
<1>1. /\ RouteOf(r)' = RouteOf(r) /\ Known(r)' = Known(r) /\ Admitted(r)' = Admitted(r)
      /\ LoggedIn(r)' = LoggedIn(r) /\ Refused(r)' = Refused(r)
  BY SameCall
<1>2. outcome'[r] = result
  BY <1>0 DEF Done
<1>3. ASSUME NEW v \in {"value", "null"}, result = [value |-> v],
             v = "null" => RouteOf(r).method = "GET"
      PROVE  Passed(r)' /\ (Returned(r)' => stage'[r] = "returned")
  <2>1. "value" \in DOMAIN result /\ result # None /\ result.value = v
    BY <1>3, NoneIsNoValue DEF Results
  <2>2. Returned(r)'
    BY <1>2, <2>1 DEF Returned
  <2>3. stage'[r] = "returned"
    BY <1>0, <2>1 DEF Done, Pass, GoTo
  <2>4. QED
    BY <1>0, <1>1, <1>2, <1>3, <2>1, <2>2, <2>3
    DEF Passed, Absent, Ended, PastRole, AtWork
<1>4. ASSUME NEW e \in Exceptions, NEW status \in {400, 401, 404, 409, 500, 503},
             result = [exception |-> e], AnsweredWith(e, status),
             Code(e) # "validationError",
             status = 401 => call[r].endpoint = "refreshToken",
             status = 503 => call[r].endpoint = "check"
      PROVE  Passed(r)' /\ ~Returned(r)'
  <2>1. "value" \notin DOMAIN result /\ result # None /\ result.exception = e
    BY <1>4, NoneIsNoValue DEF Results
  <2>2. ~Returned(r)'
    BY <1>2, <2>1 DEF Returned
  <2>3. stage'[r] = "caught" /\ thrown'[r] = e
    BY <1>0, <2>1 DEF Done, Throw, GoTo
  <2>4. Caused(r, status)'
    BY <1>0, <1>1, <1>2, <1>4, <2>1 DEF Caused
  <2>5. /\ Admitted(r)' /\ LoggedIn(r)' /\ (RouteOf(r)'.body => call'[r].body)
        /\ RouteOf(r)'.method # "GET" => call'[r].filter = None
    BY <1>0, <1>1
  <2>6. Passed(r)'
    BY <1>0, <1>4, <2>2, <2>3, <2>4, <2>5, ThrowPasses
  <2>7. QED
    BY <2>2, <2>6
<1>5. QED
  BY <1>3, <1>4

LEMMA HandlePasses ==
    ASSUME PipelineInv, NEW r \in Requests, Handle(r)
    PROVE  Passed(r)' /\ (Returned(r)' => stage'[r] = "returned")
<1>1. PICK result \in Outcomes(call[r].endpoint) : Done(r, result)
  BY DEF Handle
<1>2. /\ stage[r] = "handler" /\ call' = call /\ answer' = answer
      /\ call[r].endpoint \in DOMAIN Routes
  BY DEF Handle, PipelineInv, Passed, Absent, Requested
<1>3. CASE \E v \in {"value", "null"} : result = [value |-> v]
                                          /\ (v = "null" => call[r].endpoint \in ReturnsNull)
  BY <1>1, <1>2, <1>3, RouteFacts, DonePasses DEF RouteOf
<1>4. CASE \E e \in Throws(call[r].endpoint) \cup {Failure} : result = [exception |-> e]
  <2>1. PICK e \in Throws(call[r].endpoint) \cup {Failure} : result = [exception |-> e]
    BY <1>4
  <2>2. Code(e) # "validationError"
    BY <1>2, HandlerError
  <2>3. PICK status \in {400, 401, 404, 409, 500} :
            AnsweredWith(e, status) /\ (status = 401 => call[r].endpoint = "refreshToken")
    BY <1>2, HandlerError
  <2>4. e \in Exceptions
    BY <2>3 DEF AnsweredWith
  <2>5. QED
    BY <1>1, <1>2, <2>1, <2>2, <2>3, <2>4, DonePasses
<1>5. QED
  BY <1>1, <1>3, <1>4 DEF Outcomes

LEMMA PingPasses ==
    ASSUME PipelineInv, NEW r \in Requests, PingRefused(r) \/ Pinged(r)
    PROVE  /\ Passed(r)'
           /\ Returned(r)' => /\ stage[r] = "pinging" /\ answer[ping[r]] # None
                              /\ answer[ping[r]].success
<1>1. /\ stage[r] \in {"check", "pinging"} /\ call[r].endpoint = "check" /\ call' = call
      /\ answer' = answer
  BY DEF PingRefused, Pinged, PipelineInv, Passed
<1>2. CASE Done(r, Unavailable)
  <2>1. /\ AnsweredWith(Unavailable.exception, 503)
        /\ Code(Unavailable.exception) # "validationError"
        /\ Unavailable.exception \in Exceptions
    BY UnavailableError DEF AnsweredWith
  <2>2. Unavailable = [exception |-> Unavailable.exception]
    BY DEF Unavailable
  <2>3. Passed(r)' /\ (Returned(r)' => stage'[r] = "returned")
    BY <1>1, <1>2, <2>1, <2>2, DonePasses
  <2>4. stage'[r] = "caught"
    <3>1. "value" \notin DOMAIN Unavailable
      BY DEF Unavailable
    <3>2. QED
      BY <1>2, <3>1 DEF Done, Throw, GoTo, PipelineInv
  <2>5. QED
    BY <2>3, <2>4
<1>3. CASE Pinged(r) /\ answer[ping[r]].success /\ Done(r, [value |-> "value"])
  <2>1. Passed(r)'
    BY <1>1, <1>3, DonePasses
  <2>2. QED
    BY <1>3, <2>1 DEF Pinged
<1>4. QED
  BY <1>2, <1>3 DEF PingRefused, Pinged

LEMMA ResponsePasses ==
    ASSUME PipelineInv, NEW r \in Requests, Transform(r) \/ Catch(r)
    PROVE  Passed(r)' /\ Returned(r)' = Returned(r)
<1>0. /\ Passed(r) /\ call' = call /\ outcome' = outcome /\ call'[r] \in Requested
      /\ stage[r] \in {"returned", "caught"}
      /\ RouteOf(r).method # "GET" => call[r].filter = None
      /\ DOMAIN stage = Requests /\ DOMAIN thrown = Requests /\ DOMAIN answer = Requests
  BY DEF PipelineInv, Passed, Transform, Catch, Absent
<1>1. /\ RouteOf(r)' = RouteOf(r) /\ Known(r)' = Known(r) /\ Admitted(r)' = Admitted(r)
      /\ LoggedIn(r)' = LoggedIn(r) /\ Returned(r)' = Returned(r)
  BY <1>0, SameCall, SameOutcome
<1>2. CASE Transform(r) /\ outcome[r].value = "null"
  <2>1. /\ stage[r] = "returned" /\ stage'[r] = "caught" /\ thrown'[r] = Failure
        /\ answer'[r] = None
    BY <1>0, <1>2 DEF Transform, Throw, GoTo, Passed
  <2>2. /\ Returned(r) /\ Known(r) /\ Admitted(r) /\ LoggedIn(r)
        /\ (RouteOf(r).body => call[r].body) /\ RouteOf(r).method = "GET"
    BY <1>0, <1>2, <2>1 DEF Passed, PastRole, AtWork
  <2>3. Caused(r, 500)'
    BY <1>0, <1>1, <2>2 DEF Caused, Returned
  <2>4. QED
    BY <1>0, <1>1, <2>1, <2>2, <2>3, ThrowPasses, OtherError
<1>3. CASE Transform(r) /\ outcome[r].value # "null"
  <2> DEFINE response == [success |-> TRUE, code |-> "OK", content |-> None,
                          status |-> IF RouteOf(r).method = "POST" THEN 201 ELSE 200]
  <2>1. /\ stage[r] = "returned" /\ stage'[r] = "answered" /\ answer'[r] = response
    BY <1>0, <1>3 DEF Transform, Respond, GoTo
  <2>2. /\ Returned(r) /\ Known(r) /\ Admitted(r) /\ LoggedIn(r)
        /\ (RouteOf(r).body => call[r].body)
    BY <1>0, <2>1 DEF Passed, PastRole, AtWork
  <2>3. /\ response \in Responses /\ response.success
        /\ response.status \in {200, 201} /\ response.code # "validationError"
    BY DEF Responses
  <2> HIDE DEF response
  <2>4. Right(r, answer[r])'
    BY <1>0, <1>1, <2>1, <2>2, <2>3 DEF Right, Caused
  <2>5. QED
    BY <1>0, <1>1, <2>1, <2>2, <2>3, <2>4 DEF Passed, Absent, Ended, PastRole, AtWork, Returned
<1>4. CASE Catch(r)
  <2>1. /\ stage[r] = "caught" /\ stage'[r] = "answered"
        /\ answer'[r] = ErrorResponse(thrown[r])
    BY <1>0, <1>4 DEF Catch, Respond, GoTo
  <2>2. Right(r, ErrorResponse(thrown[r])) /\ ErrorResponse(thrown[r]) \in Responses
    BY <1>0, <2>1 DEF Passed
  <2>3. Right(r, answer[r])'
    BY <1>0, <1>1, <2>1, <2>2 DEF Right, Caused
  <2>4. QED
    BY <1>0, <1>1, <2>1, <2>2, <2>3 DEF Passed, Absent, Ended, PastRole, AtWork, Returned
<1>5. QED
  BY <1>2, <1>3, <1>4
-----------------------------------------------------------------------------
(***************************************************************************)
(* Labelled: which request the log id names.                               *)
(***************************************************************************)
LEMMA LabelledArrival ==
    ASSUME Labelled, NEW n \in Requests, stage[n] \in Absent, Numbered(n)',
           \A r \in Requests \ {n} : /\ stage'[r] \in Absent <=> stage[r] \in Absent
                                    /\ call'[r] = call[r],
           arrived' = Append(arrived, n), logId' = n,
           lines' \subseteq lines \cup {<<n, n>>}
    PROVE  Labelled'
<1> DEFINE last == Len(arrived) + 1
<1>1. /\ arrived \in Seq(Requests) /\ Len(arrived) \in Nat /\ arrived' \in Seq(Requests)
      /\ Len(arrived') = last /\ arrived'[last] = n
      /\ \A i \in 1 .. Len(arrived) : arrived'[i] = arrived[i] /\ arrived[i] \in Requests
  BY DEF Labelled
<1>2. \A i \in 1 .. last : i = last \/ i \in 1 .. Len(arrived)
  BY <1>1
<1>3. \A i \in 1 .. Len(arrived) : i \in 1 .. last /\ i <= last /\ arrived[i] # n
  BY <1>1 DEF Labelled, Numbered
<1>4. \A i, j \in 1 .. last : arrived'[i] = arrived'[j] => i = j
  BY <1>1, <1>2, <1>3 DEF Labelled
<1>5. \A r \in Requests \ {n} : Numbered(r)' <=> Numbered(r)
  BY DEF Numbered
<1>6. \A i \in 1 .. last : Numbered(arrived[i])'
  BY <1>1, <1>2, <1>3, <1>5 DEF Labelled, Numbered
<1>7. ASSUME NEW r \in Requests, Numbered(r)'
      PROVE  \E i \in 1 .. last : arrived'[i] = r
  <2>1. CASE r = n
    BY <1>1, <2>1
  <2>2. CASE r # n
    <3>1. PICK i \in 1 .. Len(arrived) : arrived[i] = r
      BY <1>5, <1>7, <2>2 DEF Labelled
    <3>2. QED
      BY <1>1, <1>3, <3>1
  <2>3. QED
    BY <2>1, <2>2
<1>8. ASSUME NEW line \in lines'
      PROVE  /\ line \in (Requests \cup {None}) \X Requests /\ stage'[line[2]] \notin Absent
             /\ Numbered(line[2])' =>
                   \E i, j \in 1 .. last :
                      arrived'[i] = line[1] /\ arrived'[j] = line[2] /\ i >= j
  <2>1. CASE line = <<n, n>>
    BY <1>1, <2>1 DEF Numbered
  <2>2. CASE line \in lines
    <3>1. /\ line \in (Requests \cup {None}) \X Requests /\ stage[line[2]] \notin Absent
          /\ line[2] \in Requests \ {n}
      BY <2>2 DEF Labelled
    <3>2. ASSUME Numbered(line[2])'
          PROVE  \E i, j \in 1 .. last :
                    arrived'[i] = line[1] /\ arrived'[j] = line[2] /\ i >= j
      <4>1. PICK i, j \in 1 .. Len(arrived) :
                arrived[i] = line[1] /\ arrived[j] = line[2] /\ i >= j
        BY <1>5, <2>2, <3>1, <3>2 DEF Labelled
      <4>2. QED
        BY <1>1, <1>3, <4>1
    <3>3. QED
      BY <3>1, <3>2
  <2>3. QED
    BY <2>1, <2>2
<1>9. last > 0 /\ last # 0
  BY <1>1
<1>10. QED
  BY <1>1, <1>4, <1>6, <1>7, <1>8, <1>9 DEF Labelled

LEMMA LabelledStep ==
    ASSUME Labelled, NEW n \in Requests, stage[n] \notin Absent, call' = call,
           \A r \in Requests : stage'[r] \in Absent <=> stage[r] \in Absent,
           arrived' = arrived, logId' = logId, lines' \subseteq lines \cup {<<logId, n>>}
    PROVE  Labelled'
<1> DEFINE last == Len(arrived)
<1>1. \A r \in Requests : Numbered(r)' <=> Numbered(r)
  BY DEF Numbered
<1>2. /\ last \in Nat /\ \A i \in 1 .. last : arrived[i] \in Requests
      /\ logId \in Requests \cup {None}
  BY DEF Labelled
<1>3. ASSUME NEW line \in lines'
      PROVE  /\ line \in (Requests \cup {None}) \X Requests /\ stage'[line[2]] \notin Absent
             /\ Numbered(line[2])' =>
                   \E i, k \in 1 .. last :
                      arrived[i] = line[1] /\ arrived[k] = line[2] /\ i >= k
  <2>1. CASE line = <<logId, n>>
    <3>1. ASSUME Numbered(n)
          PROVE  \E i, k \in 1 .. last : arrived[i] = logId /\ arrived[k] = n /\ i >= k
      <4>1. PICK k \in 1 .. last : arrived[k] = n
        BY <3>1 DEF Labelled
      <4>2. last > 0 /\ logId = arrived[last] /\ last \in 1 .. last /\ last >= k
        BY <1>2, <4>1 DEF Labelled
      <4>3. QED
        BY <4>1, <4>2
    <3>2. QED
      BY <1>1, <1>2, <2>1, <3>1
  <2>2. CASE line \in lines
    BY <1>1, <2>2 DEF Labelled
  <2>3. QED
    BY <2>1, <2>2
<1>4. QED
  BY <1>1, <1>2, <1>3 DEF Labelled

\* A request without an id of its own.
LEMMA LabelledUnreadable ==
    ASSUME Labelled, NEW n \in Requests, stage[n] \in Absent, ~Numbered(n)',
           \A r \in Requests \ {n} : stage'[r] = stage[r] /\ call'[r] = call[r],
           arrived' = arrived, logId' = logId, lines' = lines
    PROVE  Labelled'
<1>1. \A r \in Requests : Numbered(r)' <=> Numbered(r)
  BY DEF Numbered
<1>2. \A i \in 1 .. Len(arrived) : arrived[i] \in Requests
  BY DEF Labelled
<1>3. \A line \in lines : /\ line \in (Requests \cup {None}) \X Requests
                          /\ line[2] \in Requests \ {n} /\ stage[line[2]] \notin Absent
  BY DEF Labelled
<1>4. QED
  BY <1>1, <1>2, <1>3 DEF Labelled
-----------------------------------------------------------------------------
(***************************************************************************)
(* The steps of a request that has arrived, but for sending a ping.        *)
(***************************************************************************)
Types ==
    /\ stage \in [Requests -> Stages]
    /\ user \in [Requests -> {"root", None} \cup Members]
    /\ DOMAIN call = Requests /\ DOMAIN outcome = Requests /\ DOMAIN thrown = Requests
    /\ DOMAIN answer = Requests /\ DOMAIN ping = Requests
    /\ contents \in Requests \cup {None}

LEMMA ContinueAlone ==
    ASSUME PipelineInv, NEW r \in Requests, Continue(r), ~SendPing(r)
    PROVE  /\ Types' /\ call' = call /\ ping' = ping /\ port' = port
           /\ arrived' = arrived /\ logId' = logId /\ lines' \subseteq lines \cup {<<logId, r>>}
           /\ stage[r] \notin Absent \cup {"answered"} /\ stage'[r] \notin Absent
           /\ \A q \in Requests \ {r} :
                /\ stage'[q] = stage[q] /\ user'[q] = user[q] /\ outcome'[q] = outcome[q]
                /\ thrown'[q] = thrown[q] /\ answer'[q] = answer[q]
           /\ stage'[r] # "pinging"
           /\ stage'[r] = "log" => stage[r] = "role" \/ call[r].endpoint = "login"
           /\ stage'[r] \in {"role", "pipe", "check"} => stage[r] \in {"jwt", "log", "pipe"}
           /\ stage'[r] # "jwt"
<1> USE DEF PipelineInv, Types, Pass, Throw, GoTo, Refuse, Absent, Stages, shared
<1>0. Passed(r) /\ Types
  OBVIOUS
<1>1. CASE JwtGuard(r)
  <2>1. call[r].token \in {"root", "bad", None} \cup Members
    BY <1>1 DEF JwtGuard, Passed, Requested
  <2>2. QED
    BY <1>1, <2>1 DEF JwtGuard
<1>2. CASE RoleGuard(r)
  BY <1>2 DEF RoleGuard
<1>3. CASE LocalGuard(r)
  BY <1>3 DEF LocalGuard
<1>4. CASE Credentials(r)
  BY <1>4 DEF Credentials, Members, Passed
<1>5. CASE Intercept(r)
  BY <1>5 DEF Intercept, Log
<1>6. CASE Pipe(r)
  BY <1>6 DEF Pipe
<1>7. CASE Handle(r)
  BY <1>7 DEF Handle, Done
<1>8. CASE PingRefused(r)
  BY <1>8 DEF PingRefused, Done
<1>9. CASE Pinged(r)
  BY <1>9 DEF Pinged, Done
<1>10. CASE Transform(r)
  BY <1>10 DEF Transform, Respond, Log
<1>11. CASE Catch(r)
  BY <1>11 DEF Catch, Respond, Log
<1>12. QED
  BY <1>1, <1>2, <1>3, <1>4, <1>5, <1>6, <1>7, <1>8, <1>9, <1>10, <1>11 DEF Continue

LEMMA ContinuePasses ==
    ASSUME PipelineInv, NEW r \in Requests, Continue(r), ~SendPing(r)
    PROVE  /\ \A q \in Requests : Passed(q)'
           /\ Returned(r)' /\ call[r].endpoint = "check" /\ ~Returned(r) =>
                /\ stage[r] = "pinging" /\ answer[ping[r]] # None
                /\ answer[ping[r]].success
<1>1. \A q \in Requests \ {r} : Passed(q)'
  BY ContinueAlone, SamePassed DEF PipelineInv
<1>2. CASE Transform(r) \/ Catch(r)
  BY <1>1, <1>2, ResponsePasses
<1>3. CASE PingRefused(r) \/ Pinged(r)
  BY <1>1, <1>3, PingPasses
<1>4. CASE Handle(r)
  <2>1. call[r].endpoint # "check"
    BY <1>4 DEF Handle, PipelineInv, Passed
  <2>2. QED
    BY <1>1, <1>4, <2>1, HandlePasses
<1>5. CASE \/ JwtGuard(r) \/ RoleGuard(r) \/ LocalGuard(r) \/ Credentials(r)
           \/ Intercept(r) \/ Pipe(r)
  <2>1. Passed(r)'
    BY <1>5, GuardsPass, BodyPasses
  <2>2. Returned(r)' = Returned(r)
    BY <1>5 DEF JwtGuard, RoleGuard, LocalGuard, Credentials, Intercept, Pipe, Returned
  <2>3. QED
    BY <1>1, <2>1, <2>2
<1>6. QED
  BY <1>2, <1>3, <1>4, <1>5 DEF Continue

LEMMA ContinuePings ==
    ASSUME PipelineInv, NEW r \in Requests, Continue(r), ~SendPing(r), NEW q \in Requests
    PROVE  Pinging(q)'
<1>0. /\ call' = call /\ ping' = ping /\ port' = port
      /\ stage[r] \notin Absent \cup {"answered"} /\ stage'[r] \notin Absent
      /\ stage'[r] # "pinging" /\ Passed(r)
      /\ \A p \in Requests \ {r} : /\ stage'[p] = stage[p] /\ outcome'[p] = outcome[p]
                                   /\ answer'[p] = answer[p]
  BY ContinueAlone DEF PipelineInv
<1>1. \A p \in Requests : Checking(p)' => Checking(p)
  <2>1. Checking(r)' => Checking(r)
    BY <1>0, ContinueAlone DEF Checking, Passed
  <2>2. QED
    BY <1>0, <2>1 DEF Checking
<1>2. ASSUME Checking(q)'
      PROVE  /\ ping'[q] \in Requests /\ stage'[ping'[q]] = "reserved"
             /\ \A p \in Requests : Checking(p)' /\ ping'[p] = ping'[q] => p = q
  <2>1. /\ ping[q] \in Requests /\ stage[ping[q]] = "reserved"
        /\ \A p \in Requests : Checking(p) /\ ping[p] = ping[q] => p = q
    BY <1>1, <1>2 DEF PipelineInv, Pinging
  <2>2. ping[q] # r
    BY <1>0, <2>1 DEF Absent
  <2>3. QED
    BY <1>0, <1>1, <2>1, <2>2
<1>3. stage'[q] = "pinging" => port' = ListenPort /\ ping'[q] \in Requests
  BY <1>0 DEF PipelineInv, Pinging
<1>4. \A p \in Requests : answer[p] # None => answer'[p] = answer[p]
  BY <1>0 DEF Passed
<1>5. ASSUME Returned(q)', call[q].endpoint = "check"
      PROVE  /\ port = ListenPort /\ ping[q] \in Requests
             /\ answer[ping[q]] # None /\ answer[ping[q]].success
  <2>1. CASE Returned(q)
    BY <1>5, <2>1 DEF PipelineInv, Pinging
  <2>2. CASE ~Returned(q)
    <3>1. q = r
      BY <1>0, <1>5, <2>2, SameOutcome
    <3>2. QED
      BY <1>5, <2>2, <3>1, ContinuePasses DEF PipelineInv, Pinging
  <2>3. QED
    BY <2>1, <2>2
<1>6. QED
  BY <1>0, <1>2, <1>3, <1>4, <1>5 DEF Pinging
-----------------------------------------------------------------------------
(***************************************************************************)
(* Arrivals, those of a health check's own ping included.                  *)
(***************************************************************************)
LEMMA ArriveStep ==
    ASSUME PipelineInv, NEW r \in Requests, Arrive(r)
    PROVE  PipelineInv'
<1>1. PICK c \in Calls : Sensible(c) /\ Middlewares(r, c) /\ stage[r] = "idle" /\ ping' = ping
  BY DEF Arrive
<1>2. /\ call' = [call EXCEPT ![r] = c] /\ logId' = r /\ arrived' = Append(arrived, r)
      /\ lines' \subseteq lines \cup {<<r, r>>} /\ port' = port
      /\ stage'[r] \in {"caught", "jwt"} /\ Types'
      /\ \A q \in Requests \ {r} : stage'[q] = stage[q] /\ thrown'[q] = thrown[q]
      /\ user' = user /\ outcome' = outcome /\ answer' = answer
  BY <1>1 DEF Middlewares, LogIdOf, FilterRefused, Throw, Pass, GoTo, Log, Types,
     PipelineInv, Stages
<1>3. c.endpoint # "check" /\ call'[r].endpoint \notin {"check", "unreadable"}
  BY <1>1, <1>2 DEF Calls, Call, PipelineInv
<1>4. /\ Passed(r)' /\ ~Returned(r)'
  BY <1>1, <1>2, ArrivePasses DEF Passed, PipelineInv, Returned, Ended
<1>5. \A q \in Requests \ {r} : Passed(q)' /\ call'[q] = call[q]
  BY <1>2, SamePassed DEF PipelineInv
<1>6. \A q \in Requests : Checking(q)' => q # r /\ Checking(q)
  BY <1>2, <1>3, <1>5 DEF Checking
<1>7. ASSUME NEW q \in Requests PROVE Pinging(q)'
  <2>1. CASE q = r
    BY <1>2, <1>4, <1>6, <2>1 DEF Pinging
  <2>2. CASE q # r
    <3>1. Returned(q)' = Returned(q) /\ Pinging(q)
      BY <1>2, SameOutcome DEF PipelineInv
    <3>2. Checking(q)' => ping[q] # r
      BY <1>1, <1>6, <3>1 DEF Pinging
    <3>3. QED
      BY <1>1, <1>2, <1>5, <1>6, <2>2, <3>1, <3>2 DEF Pinging
  <2>3. QED
    BY <2>1, <2>2
<1>8. Labelled'
  <2>1. stage[r] \in Absent /\ Numbered(r)'
    BY <1>1, <1>2, <1>3 DEF Absent, Numbered
  <2>2. QED
    BY <1>2, <1>5, <2>1, LabelledArrival DEF PipelineInv
<1>9. QED
  BY <1>2, <1>4, <1>5, <1>7, <1>8 DEF PipelineInv, Types

LEMMA ArriveUnreadableStep ==
    ASSUME PipelineInv, NEW r \in Requests, ArriveUnreadable(r)
    PROVE  PipelineInv'
<1> DEFINE c == Call("unreadable", None, None, TRUE, TRUE)
<1>1. /\ stage[r] = "idle" /\ call' = [call EXCEPT ![r] = c]
      /\ stage'[r] = "caught" /\ thrown'[r] = Failure /\ Types'
      /\ \A q \in Requests \ {r} : stage'[q] = stage[q] /\ thrown'[q] = thrown[q]
      /\ UNCHANGED <<user, outcome, answer, ping, port, logId, contents, arrived, lines>>
  BY DEF ArriveUnreadable, Throw, GoTo, Types, PipelineInv, Stages, shared
<1>2. /\ call'[r] = c /\ \A q \in Requests \ {r} : call'[q] = call[q]
      /\ c.endpoint = "unreadable" /\ c.filter = None /\ c \in Requested
  BY <1>1, RouteFacts DEF PipelineInv, Call, Requested
<1> HIDE DEF c
<1>3. /\ outcome'[r] = None /\ answer'[r] = None /\ ~Returned(r)' /\ ~Returned(r)
  BY <1>1 DEF PipelineInv, Passed, Returned, Ended
<1>4. Passed(r)'
  <2>1. Known(r)' /\ RouteOf(r)'.method # "GET"
    BY <1>2, RouteFacts DEF Known, RouteOf
  <2>2. Caused(r, 500)'
    BY <1>2, <2>1 DEF Caused
  <2>3. QED
    BY <1>1, <1>2, <1>3, <2>1, <2>2, ThrowPasses, OtherError
<1>5. \A q \in Requests \ {r} : Passed(q)'
  BY <1>1, <1>2, SamePassed DEF PipelineInv
<1>6. ASSUME NEW q \in Requests PROVE Pinging(q)'
  <2>1. \A p \in Requests : Checking(p)' => p # r /\ Checking(p)
    BY <1>1, <1>2 DEF Checking
  <2>2. Returned(q)' = Returned(q) /\ Pinging(q)
    BY <1>1, SameOutcome DEF PipelineInv
  <2>3. Checking(q)' => ping[q] # r
    BY <1>1, <2>1, <2>2 DEF Pinging
  <2>4. QED
    BY <1>1, <1>2, <1>3, <2>1, <2>2, <2>3 DEF Pinging
<1>7. Labelled'
  <2>1. stage[r] \in Absent /\ ~Numbered(r)'
    BY <1>1, <1>2 DEF Absent, Numbered
  <2>2. QED
    BY <1>1, <1>2, <2>1, LabelledUnreadable DEF PipelineInv
<1>8. QED
  BY <1>1, <1>4, <1>5, <1>6, <1>7 DEF PipelineInv, Types

LEMMA ArriveCheckStep ==
    ASSUME PipelineInv, NEW r \in Requests, NEW n \in Requests, ArriveCheck(r, n)
    PROVE  PipelineInv'
<1>1. /\ stage[r] = "idle" /\ stage[n] = "idle" /\ r # n
      /\ call' = [call EXCEPT ![r] = Call("check", None, None, TRUE, TRUE)]
      /\ logId' = r /\ arrived' = Append(arrived, r) /\ lines' = lines /\ port' = port
      /\ stage'[r] = "jwt" /\ stage'[n] = "reserved" /\ ping' = [ping EXCEPT ![r] = n]
      /\ \A q \in Requests \ {r, n} : stage'[q] = stage[q]
      /\ user' = user /\ outcome' = outcome /\ answer' = answer /\ thrown' = thrown
      /\ Types'
  BY DEF ArriveCheck, LogIdOf, Types, PipelineInv, Stages
<1>2. call'[r] = Call("check", None, None, TRUE, TRUE) /\ ping'[r] = n
      /\ \A q \in Requests \ {r} : call'[q] = call[q] /\ ping'[q] = ping[q]
  BY <1>1 DEF PipelineInv
<1>3. Passed(r)'
  BY <1>1, <1>2, CheckPasses DEF Absent
<1>4. Passed(n)'
  <2>1. /\ outcome[n] = None /\ answer[n] = None
    BY <1>1 DEF PipelineInv, Passed, Ended
  <2>2. QED
    BY <1>1, <2>1 DEF Passed, Absent, Ended, PastRole, AtWork, Returned
<1>5. \A q \in Requests \ {r, n} : Passed(q)'
  BY <1>1, <1>2, SamePassed DEF PipelineInv
<1>6. /\ \A q \in Requests \ {r} : Checking(q)' => q # n /\ Checking(q)
      /\ \A q \in Requests : Returned(q)' = Returned(q)
      /\ ~Returned(r)
  BY <1>1, <1>2, SameOutcome DEF Checking, PipelineInv, Passed, Returned, Ended
<1>7. \A q \in Requests : Checking(q) => ping[q] # r /\ ping[q] # n
  BY <1>1 DEF PipelineInv, Pinging
<1>8. ASSUME NEW q \in Requests PROVE Pinging(q)'
  <2>1. CASE q = r
    <3>1. \A p \in Requests : Checking(p)' /\ ping'[p] = n => p = r
      BY <1>2, <1>6, <1>7
    <3>2. QED
      BY <1>1, <1>2, <1>6, <2>1, <3>1 DEF Pinging
  <2>2. CASE q # r
    <3>1. Pinging(q)
      BY DEF PipelineInv
    <3>2. ASSUME Checking(q)'
          PROVE  /\ ping'[q] \in Requests /\ stage'[ping'[q]] = "reserved"
                 /\ \A p \in Requests : Checking(p)' /\ ping'[p] = ping'[q] => p = q
      <4>1. /\ ping'[q] = ping[q] /\ ping[q] \in Requests /\ stage[ping[q]] = "reserved"
            /\ \A p \in Requests : Checking(p) /\ ping[p] = ping[q] => p = q
        BY <1>2, <1>6, <2>2, <3>1, <3>2 DEF Pinging
      <4>2. ping[q] # r /\ ping[q] # n
        BY <1>6, <1>7, <2>2, <3>2
      <4>3. QED
        BY <1>1, <1>2, <1>6, <4>1, <4>2
    <3>3. stage'[q] = "pinging" => stage[q] = "pinging"
      BY <1>1, <2>2
    <3>4. QED
      BY <1>1, <1>2, <1>6, <2>2, <3>1, <3>2, <3>3 DEF Pinging
  <2>3. QED
    BY <2>1, <2>2
<1>9. Labelled'
  <2>1. /\ stage[r] \in Absent /\ Numbered(r)'
        /\ \A q \in Requests \ {r} : stage'[q] \in Absent <=> stage[q] \in Absent
    BY <1>1, <1>2 DEF Absent, Numbered, Call
  <2>2. QED
    BY <1>1, <1>2, <2>1, LabelledArrival DEF PipelineInv
<1>10. QED
  BY <1>1, <1>3, <1>4, <1>5, <1>8, <1>9 DEF PipelineInv, Types

LEMMA SendPingStep ==
    ASSUME PipelineInv, NEW r \in Requests, SendPing(r)
    PROVE  PipelineInv'
<1>0. /\ stage[r] = "check" /\ call[r].endpoint = "check" /\ Checking(r) /\ Passed(r)
      /\ ~Returned(r) /\ outcome[r] = None /\ answer[r] = None
  BY DEF SendPing, PipelineInv, Passed, Checking, Ended, Returned
<1>1. PICK n \in Requests :
          /\ n = ping[r] /\ stage[n] = "reserved" /\ n # r
          /\ \A q \in Requests \ {r} : Checking(q) => ping[q] # n
          /\ \A q \in Requests : Checking(q) => ping[q] # r
  BY <1>0 DEF PipelineInv, Pinging
<1>2. /\ call' = [call EXCEPT ![n] = Call("ping", None, None, TRUE, TRUE)]
      /\ logId' = n /\ arrived' = Append(arrived, n) /\ lines' = lines /\ port' = port
      /\ port = ListenPort /\ ping' = ping /\ stage'[r] = "pinging" /\ stage'[n] = "jwt"
      /\ \A q \in Requests \ {r, n} : stage'[q] = stage[q]
      /\ user' = user /\ outcome' = outcome /\ answer' = answer /\ thrown' = thrown
      /\ Types'
  BY <1>1 DEF SendPing, LogIdOf, Types, PipelineInv, Stages
<1>3. call'[n] = Call("ping", None, None, TRUE, TRUE)
      /\ \A q \in Requests \ {n} : call'[q] = call[q]
  BY <1>1, <1>2 DEF PipelineInv
<1>4. Passed(n)'
  BY <1>1, <1>2, <1>3, CheckPasses DEF Absent
<1>5. Passed(r)'
  <2>1. /\ RouteOf(r)' = RouteOf(r) /\ Known(r)' = Known(r) /\ Admitted(r)' = Admitted(r)
        /\ LoggedIn(r)' = LoggedIn(r) /\ Refused(r)' = Refused(r)
        /\ Returned(r)' = Returned(r) /\ call'[r] = call[r]
    BY <1>1, <1>2, <1>3, SameCall, SameOutcome
  <2>2. QED
    BY <1>0, <1>2, <2>1 DEF Passed, Absent, Ended, PastRole, AtWork
<1>6. \A q \in Requests \ {r, n} : Passed(q)'
  BY <1>2, <1>3, SamePassed DEF PipelineInv
<1>7. call'[n].endpoint # "check"
  BY <1>3 DEF Call
<1>8. /\ \A q \in Requests : Checking(q)' => q # r /\ q # n /\ Checking(q)
      /\ \A q \in Requests : Returned(q)' = Returned(q)
  BY <1>1, <1>2, <1>3, <1>7, SameOutcome DEF Checking
<1>9. ASSUME NEW q \in Requests PROVE Pinging(q)'
  <2>1. Pinging(q)
    BY DEF PipelineInv
  <2>2. ASSUME Checking(q)'
        PROVE  /\ ping'[q] \in Requests /\ stage'[ping'[q]] = "reserved"
               /\ \A p \in Requests : Checking(p)' /\ ping'[p] = ping'[q] => p = q
    BY <1>1, <1>2, <1>8, <2>1, <2>2 DEF Pinging
  <2>3. stage'[q] = "pinging" => ping'[q] \in Requests
    BY <1>1, <1>2, <2>1 DEF Pinging
  <2>4. ASSUME Returned(q)', call'[q].endpoint = "check"
        PROVE  ping[q] \in Requests /\ answer[ping[q]] # None /\ answer[ping[q]].success
    BY <1>3, <1>7, <1>8, <2>1, <2>4 DEF Pinging
  <2>5. QED
    BY <1>2, <2>2, <2>3, <2>4 DEF Pinging
<1>10. Labelled'
  <2>1. /\ stage[n] \in Absent /\ Numbered(n)'
        /\ \A q \in Requests \ {n} : stage'[q] \in Absent <=> stage[q] \in Absent
    BY <1>0, <1>1, <1>2, <1>3 DEF Absent, Numbered, Call
  <2>2. QED
    BY <1>1, <1>2, <1>3, <2>1, LabelledArrival DEF PipelineInv
<1>11. QED
  BY <1>2, <1>4, <1>5, <1>6, <1>9, <1>10 DEF PipelineInv, Types
-----------------------------------------------------------------------------
LEMMA PipelineInvInit == Init => PipelineInv
<1> SUFFICES ASSUME Init PROVE PipelineInv
  OBVIOUS
<1>1. \A r \in Requests : Passed(r) /\ Pinging(r)
  BY DEF Init, Passed, Pinging, Checking, Returned, Absent, Ended, PastRole, AtWork
<1>2. Labelled
  BY DEF Init, Labelled, Numbered, Absent
<1>3. QED
  BY <1>1, <1>2 DEF PipelineInv, Init, Stages

LEMMA PipelineInvStep == PipelineInv /\ [Next]_vars => PipelineInv'
<1> SUFFICES ASSUME PipelineInv, [Next]_vars PROVE PipelineInv'
  OBVIOUS
<1>1. CASE UNCHANGED vars
  <2>1. /\ UNCHANGED <<stage, call, user, outcome, thrown, answer, ping>>
        /\ UNCHANGED <<port, logId, contents, arrived, lines>>
    BY <1>1 DEF vars, shared
  <2>2. \A r \in Requests : Passed(r)'
    BY <2>1, SamePassed DEF PipelineInv
  <2>3. \A r \in Requests : Pinging(r)'
    BY <2>1 DEF PipelineInv, Pinging, Checking, Returned
  <2>4. Labelled'
    BY <2>1 DEF PipelineInv, Labelled, Numbered
  <2>5. QED
    BY <2>1, <2>2, <2>3, <2>4 DEF PipelineInv
<1>2. ASSUME NEW r \in Requests, Continue(r), ~SendPing(r) PROVE PipelineInv'
  <2>1. \A q \in Requests : Passed(q)' /\ Pinging(q)'
    BY <1>2, ContinuePasses, ContinuePings
  <2>2. Types'
    BY <1>2, ContinueAlone
  <2>3. Labelled'
    <3>1. /\ call' = call /\ arrived' = arrived /\ logId' = logId
          /\ lines' \subseteq lines \cup {<<logId, r>>}
          /\ stage[r] \notin Absent
          /\ \A q \in Requests : stage'[q] \in Absent <=> stage[q] \in Absent
      BY <1>2, ContinueAlone
    <3>2. QED
      BY <3>1, LabelledStep DEF PipelineInv
  <2>4. QED
    BY <2>1, <2>2, <2>3 DEF PipelineInv, Types
<1>3. QED
  BY <1>1, <1>2, ArriveStep, ArriveUnreadableStep, ArriveCheckStep, SendPingStep DEF Next

LEMMA PipelineInvAlways == Spec => []PipelineInv
BY PipelineInvInit, PipelineInvStep, PTL DEF Spec

\* Types, and what each stage works on is there.
THEOREM PipelineTypeCorrect == Spec => []TypeOK
<1>1. PipelineInv => TypeOK
  <2> SUFFICES ASSUME PipelineInv PROVE TypeOK
    OBVIOUS
  <2>1. ASSUME NEW r \in Requests
        PROVE  /\ stage[r] \notin {"idle", "reserved"} => call[r].endpoint \in DOMAIN Routes
               /\ stage[r] = "answered" <=> answer[r] # None
               /\ stage[r] = "returned" => "value" \in DOMAIN outcome[r]
               /\ stage[r] = "caught" => thrown[r] # None
    BY NoneIsNoValue DEF PipelineInv, Passed, Requested, Absent, Returned
  <2>2. /\ logId \in Requests \cup {None}
        /\ lines \subseteq (Requests \cup {None}) \X Requests
    BY DEF PipelineInv, Labelled
  <2>3. QED
    BY <2>1, <2>2 DEF PipelineInv, TypeOK
<1>2. QED
  BY <1>1, PipelineInvAlways, PTL

\* No handler runs for a caller whom its route does not admit.
THEOREM HandlersAreGuarded == Spec => []Guarded
<1>1. PipelineInv => Guarded
  BY DEF PipelineInv, Passed, Guarded, Admitted, LoggedIn
<1>2. QED
  BY <1>1, PipelineInvAlways, PTL

\* The status of every response tells the client the cause.
THEOREM StatusesTellTheCause == Spec => []StatusTellsCause
<1>1. PipelineInv => StatusTellsCause
  <2> SUFFICES ASSUME PipelineInv, NEW r \in Requests, answer[r] # None
               PROVE  Caused(r, answer[r].status)
    BY DEF StatusTellsCause, Caused, Known, Admitted
  <2>1. QED
    BY DEF PipelineInv, Passed, Right
<1>2. QED
  BY <1>1, PipelineInvAlways, PTL

\* What a handler has written is not reported as an error.
THEOREM EffectsAreReported == Spec => []EffectReported
<1>1. PipelineInv => EffectReported
  BY DEF PipelineInv, Passed, Right, Returned, EffectReported
<1>2. QED
  BY <1>1, PipelineInvAlways, PTL

\* A client whose body is not valid is told its own errors.
THEOREM ErrorsAreTheClientsOwn == Spec => []OwnValidationErrors
<1>1. PipelineInv => OwnValidationErrors
  BY DEF PipelineInv, Passed, Right, OwnValidationErrors
<1>2. QED
  BY <1>1, PipelineInvAlways, PTL

\* No log line has the id of a request that arrived before its own.
THEOREM LabelsAreLatest == Spec => []LabelsLatest
<1>1. PipelineInv => LabelsLatest
  <2> SUFFICES ASSUME PipelineInv, NEW line \in lines, call[line[2]].endpoint # "unreadable"
               PROVE  Position(line[1]) >= Position(line[2])
    BY DEF LabelsLatest
  <2>1. PICK i, j \in 1 .. Len(arrived) :
            arrived[i] = line[1] /\ arrived[j] = line[2] /\ i >= j
    BY DEF PipelineInv, Labelled, Numbered
  <2>2. DOMAIN arrived = 1 .. Len(arrived)
        /\ \A k, l \in 1 .. Len(arrived) : arrived[k] = arrived[l] => k = l
    BY DEF PipelineInv, Labelled
  <2>3. Position(line[1]) = i
    BY <2>1, <2>2 DEF Position
  <2>4. Position(line[2]) = j
    BY <2>1, <2>2 DEF Position
  <2>5. QED
    BY <2>1, <2>3, <2>4
<1>2. QED
  BY <1>1, PipelineInvAlways, PTL

\* A health check is answered with success only when the process served its ping.
THEOREM HealthIsServed == Spec => []HealthServed
<1>1. PipelineInv => HealthServed
  BY DEF PipelineInv, Passed, Right, Pinging, HealthServed
<1>2. QED
  BY <1>1, PipelineInvAlways, PTL
=============================================================================
