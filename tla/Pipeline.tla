------------------------------ MODULE Pipeline ------------------------------
(***************************************************************************)
(* What an HTTP request goes through (AppModule): the middlewares, the     *)
(* guards JwtAuthGuard, RoleGuard and, for a login, LocalAuthGuard, the    *)
(* interceptors, the validation pipe, the handler, the interceptors again, *)
(* and ErrorFilter for an exception of any of them.                        *)
(*                                                                         *)
(* Requests interleave at the awaits between these stages.  They share the *)
(* logger with its one log id, and the table of error messages, in which   *)
(* ValidationException leaves the errors of the latest invalid body.  The  *)
(* health check is a request that waits for another request to the process.*)
(*                                                                         *)
(* What a handler does to the database is the matter of Session, Accounts  *)
(* and Crud: here it has an outcome.  Times and texts are left out.        *)
(***************************************************************************)
EXTENDS Naturals, Sequences

CONSTANTS
    Requests,
    Endpoints,      \* the endpoints that are called
    Ports,          \* values of the environment variable PORT
    None

VARIABLES
    stage,          \* where a request is
    call,           \* what is sent: endpoint, access JWT, filter, body
    user,           \* request.user, as its role
    outcome,        \* what its handler returned or threw
    thrown,         \* the exception on its way to ErrorFilter
    answer,         \* the response
    ping,           \* the request that a health check sends
    port,           \* the environment variable PORT
    logId,          \* LoggerService.logId
    contents,       \* messages.validationError.content
    arrived,        \* history: the requests in the order of their arrival
    lines           \* history: pairs of a log id and whose line it labels

shared == <<port, logId, contents, arrived, lines>>
vars == <<stage, call, user, outcome, thrown, answer, ping, shared>>

\* app.listen(4000)
ListenPort == 4000

Members == {"user", "admin"}

\* @SkipJwtGuard() routes have no @Roles().  body: the handler has a DTO.
Route(method, roles, body) ==
    [method |-> method, skipJwt |-> roles = {}, roles |-> roles, body |-> body]

\* The decorators of the controllers.
AuthRoutes == [login |-> Route("POST", {}, FALSE), register |-> Route("POST", {}, TRUE)]

RefreshTokenRoutes ==
    [refreshToken |-> Route("POST",   {},        TRUE),
     revokeToken  |-> Route("DELETE", {"admin"}, TRUE)]

UserRoutes ==
    [getProfile     |-> Route("GET", Members, FALSE),
     updateProfile  |-> Route("PUT", Members, TRUE),
     changePassword |-> Route("PUT", Members, TRUE)]

CrudRoutes ==
    [findAll      |-> Route("GET",    {"admin"}, FALSE),
     findByUserId |-> Route("GET",    Members,   FALSE),
     findById     |-> Route("GET",    Members,   FALSE),
     create       |-> Route("POST",   Members,   TRUE),
     updateById   |-> Route("PUT",    Members,   TRUE),
     delete       |-> Route("DELETE", Members,   FALSE)]

HealthRoutes == [check |-> Route("GET", {}, FALSE), ping |-> Route("GET", {}, FALSE)]

f ++ g == [e \in DOMAIN f \cup DOMAIN g |-> IF e \in DOMAIN f THEN f[e] ELSE g[e]]

\* unknown: a GET of a path without a controller; unreadable: a POST whose body
\* is no JSON.
Routes ==
    AuthRoutes ++ RefreshTokenRoutes ++ UserRoutes ++ CrudRoutes ++ HealthRoutes
        ++ [unknown |-> Route("GET", {}, FALSE), unreadable |-> Route("POST", {}, FALSE)]

ASSUME EndpointsAssumption == Endpoints \subseteq DOMAIN Routes
ASSUME PortsAssumption == Ports \subseteq Nat

RouteOf(r) == Routes[call[r].endpoint]

\* An exception.  message: a key of the table of error messages, or none.
Exception(class, status, message) ==
    [class |-> class, status |-> status, message |-> message, content |-> None]

\* BusinessException and TechnicalException
Custom(status, message) == Exception("custom", status, message)

Unauthorized(message) == Exception("unauthorized", 401, message)
Failure == Exception("other", 500, None)

\* ValidationException writes the errors of r to the table of messages, and
\* takes them with it.
Invalid(r) == [Custom(400, "validationError") EXCEPT !.content = r]

\* Fault: a missing row makes deleteById return null.
ReturnsNull_Delete == {"getProfile", "findById", "delete"}

\* The handlers that return null, for an id without a row.
ReturnsNull == {"getProfile", "findById"}

SignFailed == Custom(500, "failedToSignJwt")
NotFound   == Custom(404, "entityNotFound")

\* RefreshTokenService.verify and refresh
RefreshThrows ==
    {Custom(400, m) : m \in {"invalidAccessToken", "invalidRefreshToken", "refreshTokenExpired"}}
        \cup {Unauthorized("invalidCredentials"), SignFailed}

\* UserService.changePassword
ChangeThrows ==
    {Custom(400, m) : m \in {"userNotFound", "oldPasswordEqualNewPassword",
                             "invalidOldPassword"}}

\* What the handlers throw on purpose.  (Session.OnlyRevokeMisses: updateById
\* misses no row of a login or a refresh; nor of a user, as none is deleted.)
Throws(endpoint) ==
    CASE endpoint = "login" -> {SignFailed}
      [] endpoint = "register" -> {Custom(409, "userExisted")}
      [] endpoint = "refreshToken" -> RefreshThrows
      [] endpoint = "changePassword" -> ChangeThrows
      [] endpoint \in {"updateProfile", "updateById", "revokeToken"} -> {NotFound}
      [] OTHER -> {}

\* Any handler but ping may also fail, at a statement to the database say.
Outcomes(endpoint) ==
    [value : {"value"} \cup IF endpoint \in ReturnsNull THEN {"null"} ELSE {}]
        \cup [exception : IF endpoint = "ping" THEN {}
                          ELSE Throws(endpoint) \cup {Failure}]
-----------------------------------------------------------------------------
Init ==
    /\ stage = [r \in Requests |-> "idle"]
    /\ call = [r \in Requests |-> None]
    /\ user = [r \in Requests |-> None]
    /\ outcome = [r \in Requests |-> None]
    /\ thrown = [r \in Requests |-> None]
    /\ answer = [r \in Requests |-> None]
    /\ ping = [r \in Requests |-> None]
    /\ port \in Ports
    /\ logId = None
    /\ contents = None
    /\ arrived = <<>>
    /\ lines = {}

GoTo(r, next) == stage' = [stage EXCEPT ![r] = next]

\* r ends in an exception, which ErrorFilter catches a little later.
Throw(r, exception) ==
    /\ GoTo(r, "caught")
    /\ thrown' = [thrown EXCEPT ![r] = exception]

Pass(r, next) == GoTo(r, next) /\ UNCHANGED thrown

\* log_ and error_ label a line with the log id of the moment.
Log(r, id) == lines' = lines \cup {<<id, r>>}

\* Fault: the log id is set once, by the first request.
LogIdOf_Once(r) == IF logId = None THEN r ELSE logId

\* RequestContextMiddleware: generateCode, for every request.
LogIdOf(r) == r

\* Fault: the exception of the parser is lost in an async callback.
FilterRefused_Lost(r) == GoTo(r, "lost") /\ UNCHANGED thrown

FilterRefused(r) == Throw(r, Custom(400, "invalidFilter"))

\* The router's NotFoundException
Unrouted == Exception("other", 404, None)

\* RequestContextMiddleware and FilterQueryMiddleware (GET only), and the
\* router, in one go.
Middlewares(r, c) ==
    /\ call' = [call EXCEPT ![r] = c]
    /\ logId' = LogIdOf(r)
    /\ arrived' = Append(arrived, r)
    /\ IF Routes[c.endpoint].method = "GET" /\ c.filter = "invalid"
         THEN FilterRefused(r) /\ Log(r, logId')
         ELSE /\ IF c.endpoint = "unknown" THEN Throw(r, Unrouted) ELSE Pass(r, "jwt")
              /\ UNCHANGED lines
    /\ UNCHANGED <<port, user, outcome, answer, contents>>

Call(endpoint, token, filter, body, password) ==
    [endpoint |-> endpoint, token |-> token, filter |-> filter, body |-> body,
     password |-> password]

\* token: a role, or a JWT that does not verify, or none.
Calls ==
    {Call(e, t, f, b, p) : e \in Endpoints \ {"check", "unreadable"},
                           t \in {"root", "bad", None} \cup Members,
                           f \in {None, "invalid"}, b \in BOOLEAN, p \in BOOLEAN}

\* Of the calls that differ in what their endpoint ignores, one is enough.
Sensible(c) ==
    LET route == Routes[c.endpoint]
    IN  /\ route.method # "GET" => c.filter = None
        /\ ~route.body /\ c.endpoint # "login" => c.body
        /\ c.endpoint # "login" => c.password
        /\ route.skipJwt => c.token = None

Arrive(r) ==
    /\ stage[r] = "idle"
    /\ \E c \in {d \in Calls : Sensible(d)} : Middlewares(r, c)
    /\ UNCHANGED ping

\* The body parser throws before any middleware: the request has no log id.
ArriveUnreadable(r) ==
    /\ "unreadable" \in Endpoints
    /\ stage[r] = "idle"
    /\ call' = [call EXCEPT ![r] = Call("unreadable", None, None, TRUE, TRUE)]
    /\ Throw(r, Failure)
    /\ UNCHANGED <<user, outcome, answer, ping, shared>>

\* A health check, with the request q that it will send.
ArriveCheck(r, q) ==
    /\ "check" \in Endpoints
    /\ stage[r] = "idle" /\ stage[q] = "idle" /\ r # q
    /\ call' = [call EXCEPT ![r] = Call("check", None, None, TRUE, TRUE)]
    /\ logId' = LogIdOf(r)
    /\ arrived' = Append(arrived, r)
    /\ stage' = [stage EXCEPT ![r] = "jwt", ![q] = "reserved"]
    /\ ping' = [ping EXCEPT ![r] = q]
    /\ UNCHANGED <<port, user, outcome, thrown, answer, contents, lines>>
-----------------------------------------------------------------------------
\* JwtAuthGuard
JwtGuard(r) ==
    /\ stage[r] = "jwt"
    /\ LET token == call[r].token
       IN  IF RouteOf(r).skipJwt
             THEN Pass(r, "role") /\ UNCHANGED user
           ELSE IF token \in {None, "bad"}
             THEN /\ Throw(r, Unauthorized(IF token = None THEN "accessTokenIsMissing"
                                           ELSE None))
                  /\ UNCHANGED user
           ELSE Pass(r, "role") /\ user' = [user EXCEPT ![r] = token]
    /\ UNCHANGED <<call, outcome, answer, ping, shared>>

\* Fault: any role will do.
Permitted_AnyRole(role, roles) == roles = {} \/ role # None

\* RoleGuard's condition: no roles required, the root user, or one of them.
Permitted(role, roles) == roles = {} \/ role = "root" \/ role \in roles

\* Fault: a role that is missing is reported as a missing login.
Forbidden_Unauthorized == Unauthorized(None)

Forbidden == Exception("forbidden", 403, None)

RoleGuard(r) ==
    /\ stage[r] = "role"
    /\ IF Permitted(user[r], RouteOf(r).roles)
         THEN Pass(r, IF call[r].endpoint = "login" THEN "local" ELSE "log")
         ELSE Throw(r, Forbidden)
    /\ UNCHANGED <<call, user, outcome, answer, ping, shared>>

\* The body of r is not valid.
Refuse(r) ==
    /\ contents' = r
    /\ Throw(r, Invalid(r))

\* LocalAuthGuard validates the body itself, ...
LocalGuard(r) ==
    /\ stage[r] = "local"
    /\ IF call[r].body THEN Pass(r, "credentials") /\ UNCHANGED contents ELSE Refuse(r)
    /\ UNCHANGED <<port, call, user, outcome, answer, ping, logId, arrived, lines>>

\* ... and then has LocalStrategy look for the user, and compare: either may fail.
Credentials(r) ==
    /\ stage[r] = "credentials"
    /\ \/ call[r].password /\ Pass(r, "log") /\ user' = [user EXCEPT ![r] = "user"]
       \/ ~call[r].password /\ Throw(r, Unauthorized("invalidCredentials")) /\ UNCHANGED user
       \/ Throw(r, Failure) /\ UNCHANGED user
    /\ UNCHANGED <<call, outcome, answer, ping, shared>>

\* LoggingInterceptor, before the handler.
Intercept(r) ==
    /\ stage[r] = "log"
    /\ Log(r, logId)
    /\ Pass(r, "pipe")
    /\ UNCHANGED <<port, call, user, outcome, answer, ping, logId, contents, arrived>>

\* ValidationPipe
Pipe(r) ==
    /\ stage[r] = "pipe"
    /\ IF RouteOf(r).body => call[r].body
         THEN /\ Pass(r, IF call[r].endpoint = "check" THEN "check" ELSE "handler")
              /\ UNCHANGED contents
         ELSE Refuse(r)
    /\ UNCHANGED <<port, call, user, outcome, answer, ping, logId, arrived, lines>>
-----------------------------------------------------------------------------
\* Fault: what the handler throws is taken for its result.
Done_TakesThrown(r, result) ==
    /\ outcome' = [outcome EXCEPT ![r] = result]
    /\ Pass(r, "returned")

\* The handler returns or throws.
Done(r, result) ==
    /\ outcome' = [outcome EXCEPT ![r] = result]
    /\ IF "value" \in DOMAIN result THEN Pass(r, "returned")
       ELSE Throw(r, result.exception)

Handle(r) ==
    /\ stage[r] = "handler"
    /\ \E result \in Outcomes(call[r].endpoint) : Done(r, result)
    /\ UNCHANGED <<call, user, answer, ping, shared>>

Unavailable == [exception |-> Exception("unavailable", 503, None)]

\* The health check gets its own /health/ping over HTTP, at the port of the
\* configuration: the request arrives when the process listens there.
SendPing(r) ==
    /\ stage[r] = "check" /\ port = ListenPort
    /\ call' = [call EXCEPT ![ping[r]] = Call("ping", None, None, TRUE, TRUE)]
    /\ logId' = LogIdOf(ping[r])
    /\ arrived' = Append(arrived, ping[r])
    /\ stage' = [stage EXCEPT ![r] = "pinging", ![ping[r]] = "jwt"]
    /\ UNCHANGED <<port, user, outcome, thrown, answer, ping, contents, lines>>

PingRefused(r) ==
    /\ stage[r] = "check" /\ port # ListenPort
    /\ Done(r, Unavailable)
    /\ UNCHANGED <<call, user, answer, ping, shared>>

\* Fault: the answer of the ping is not awaited.
Pinged_NotAwaited(r) ==
    /\ stage[r] = "pinging"
    /\ Done(r, [value |-> "value"])
    /\ UNCHANGED <<call, user, answer, ping, shared>>

\* The ping is answered; the database, disk and memory are well, or not.
Pinged(r) ==
    /\ stage[r] = "pinging" /\ answer[ping[r]] # None
    /\ \/ answer[ping[r]].success /\ Done(r, [value |-> "value"])
       \/ Done(r, Unavailable)
    /\ UNCHANGED <<call, user, answer, ping, shared>>

Respond(r, response) ==
    /\ answer' = [answer EXCEPT ![r] = response]
    /\ GoTo(r, "answered")
    /\ Log(r, logId)

\* TransformResponseInterceptor, then LoggingInterceptor: it takes the keys
\* of the data, which throws a TypeError when the data is null.
Transform(r) ==
    /\ stage[r] = "returned"
    /\ IF outcome[r].value = "null"
         THEN Throw(r, Failure) /\ UNCHANGED <<answer, lines>>
         ELSE /\ Respond(r, [success |-> TRUE, code |-> "OK", content |-> None,
                             status |-> IF RouteOf(r).method = "POST" THEN 201 ELSE 200])
              /\ UNCHANGED thrown
    /\ UNCHANGED <<port, call, user, outcome, ping, logId, contents, arrived>>

\* errorMessages.ts: a message and its code are the key, here.
Messages ==
    {"failedToSignJwt", "noErrMessageProvided", "invalidFilter", "invalidCredentials",
     "invalidRefreshToken", "invalidAccessToken", "accessTokenExpired", "refreshTokenExpired",
     "accessTokenIsMissing", "userNotFound", "userExisted", "crudNotFound", "crudExisted",
     "invalidOldPassword", "userNamePasswordMissing", "functionError",
     "startDateGreaterThanEndDate", "oldPasswordEqualNewPassword", "entityNotFound",
     "validationError"}

\* getErrorMessage, of the exceptions of Nest that ErrorFilter knows.
ErrorMessage(exception) ==
    IF exception.message \in Messages THEN exception.message
    ELSE CASE exception.class = "unauthorized" -> "UNAUTHORIZED"
           [] exception.class = "forbidden" -> "FORBIDDEN"
           [] exception.class = "unavailable" -> "SERVICE_UNAVAILABLE"

\* Fault: the content is looked up when the exception is caught.
ContentOf_Shared(exception) ==
    IF exception.message = "validationError" THEN contents ELSE exception.content

\* The constructor of CustomException has taken the content.
ContentOf(exception) == exception.content

\* getErrorResponse: every other exception is an internal server error.
ErrorResponse(exception) ==
    [success |-> FALSE,
     status  |-> IF exception.class = "other" THEN 500 ELSE exception.status,
     code    |-> CASE exception.class = "other" -> "INTERNAL_SERVER_ERROR"
                   [] exception.class = "custom" -> exception.message
                   [] OTHER -> ErrorMessage(exception),
     content |-> ContentOf(exception)]

\* ErrorFilter
Catch(r) ==
    /\ stage[r] = "caught"
    /\ Respond(r, ErrorResponse(thrown[r]))
    /\ UNCHANGED <<port, call, user, outcome, thrown, ping, logId, contents, arrived>>
-----------------------------------------------------------------------------
Continue(r) ==
    \/ JwtGuard(r) \/ RoleGuard(r) \/ LocalGuard(r) \/ Credentials(r)
    \/ Intercept(r) \/ Pipe(r) \/ Handle(r)
    \/ SendPing(r) \/ PingRefused(r) \/ Pinged(r)
    \/ Transform(r) \/ Catch(r)

Next ==
    \E r \in Requests :
        \/ Arrive(r) \/ ArriveUnreadable(r) \/ (\E q \in Requests : ArriveCheck(r, q))
        \/ Continue(r)

\* Node runs every ready callback, and every await of a handler ends.
Spec == Init /\ [][Next]_vars /\ \A r \in Requests : WF_vars(Continue(r))
-----------------------------------------------------------------------------
(***************************************************************************)
(* Properties                                                              *)
(***************************************************************************)
Stages == {"idle", "reserved", "jwt", "role", "local", "credentials", "log", "pipe",
           "handler", "check", "pinging", "returned", "caught", "answered"}

Exceptions ==
    [class : {"custom", "unauthorized", "forbidden", "unavailable", "other"},
     status : Nat, message : Messages \cup {None}, content : Requests \cup {None}]

Responses ==
    [success : BOOLEAN, status : Nat, content : Requests \cup {None},
     code : Messages \cup {"OK", "UNAUTHORIZED", "FORBIDDEN", "SERVICE_UNAVAILABLE",
                         "INTERNAL_SERVER_ERROR"}]

Results == [value : {"value", "null"}] \cup [exception : Exceptions]

ASSUME NoneIsNoValue ==
    None \notin {"invalid"} \cup Messages \cup Exceptions \cup Responses \cup Results

TypeOK ==
    /\ stage \in [Requests -> Stages]
    /\ user \in [Requests -> {"root", None} \cup Members]
    /\ logId \in Requests \cup {None} /\ contents \in Requests \cup {None}
    /\ lines \subseteq (Requests \cup {None}) \X Requests
    /\ \A r \in Requests :
         /\ stage[r] \notin {"idle", "reserved"} => call[r].endpoint \in DOMAIN Routes
         /\ stage[r] = "answered" <=> answer[r] # None
         /\ stage[r] = "returned" => "value" \in DOMAIN outcome[r]
         /\ stage[r] = "caught" => thrown[r] # None

\* A handler runs only for a caller whom its route admits: nobody reaches a
\* protected one without a valid JWT of a role it lists (or root's), or logs
\* in without the password, whichever guards the route has.
Guarded ==
    \A r \in Requests : outcome[r] # None =>
        LET route == RouteOf(r)
        IN  /\ route.skipJwt \/ call[r].token \in route.roles \cup {"root"}
            /\ call[r].endpoint = "login" => call[r].body /\ call[r].password
            /\ route.body => call[r].body

\* The status tells the client the cause: 401 who is not known, 403 who is
\* known but not permitted, 400 what is to be corrected, and 500 what happened
\* in a handler, or to a login that was about to be let in or refused.  (Two
\* causes have no status of their own: the router's 404 for a path without a
\* controller and the 400 for a body that is no JSON become a 500.)
StatusTellsCause ==
    \A r \in Requests : answer[r] # None =>
        LET route == RouteOf(r)  status == answer[r].status  c == call[r]
            known == route.skipJwt \/ c.token \notin {None, "bad"}
        IN  /\ status = 401 => \/ ~known
                               \/ c.endpoint = "login" /\ ~c.password
                               \/ c.endpoint = "refreshToken" /\ outcome[r] # None
            /\ status = 403 => known /\ c.token \notin route.roles \cup {"root"}
            /\ status = 500 => \/ outcome[r] # None
                               \/ c.endpoint = "login" /\ c.body
                               \/ c.endpoint \in {"unknown", "unreadable"}
            /\ ~known => status = IF c.filter = "invalid" THEN 400 ELSE 401
            /\ status = 503 => c.endpoint = "check"

\* What a handler has done is not reported as an error: every handler that
\* writes and returns is answered with success.
EffectReported ==
    \A r \in Requests :
        /\ answer[r] # None /\ RouteOf(r).method # "GET"
        /\ outcome[r] # None /\ "value" \in DOMAIN outcome[r]
        => answer[r].success

\* A client whose body is not valid is told its own errors, although other
\* requests write theirs to the same message object before it is caught.
OwnValidationErrors ==
    \A r \in Requests : answer[r] # None /\ answer[r].code = "validationError" =>
        answer[r].content = r

Position(r) == CHOOSE i \in DOMAIN arrived : arrived[i] = r

\* A log line has the id of its request, or that of one that arrived later:
\* never of an earlier one, so a request alone in the process has its own.
\* (A request whose body is no JSON gets no id, and its line another's.)
LabelsLatest ==
    \A line \in lines :
        call[line[2]].endpoint # "unreadable" => Position(line[1]) >= Position(line[2])

\* The health check does not vouch for a process that does not serve: it is
\* answered 200 only after its own ping was.
HealthServed ==
    \A r \in Requests :
        answer[r] # None /\ call[r].endpoint = "check" /\ answer[r].success =>
            /\ port = ListenPort
            /\ answer[ping[r]] # None /\ answer[ping[r]].success

\* Every request is answered, the health check that waits for one included.
AllAnswered ==
    \A r \in Requests : stage[r] \notin {"idle", "reserved"} ~> stage[r] = "answered"

\* A handler that returns null is answered with success
\* (user.service.spec.ts: 'should return null if user not found').
NullAnswered ==
    \A r \in Requests :
        answer[r] # None /\ outcome[r] = [value |-> "null"] => answer[r].success
=============================================================================
