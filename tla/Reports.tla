------------------------------- MODULE Reports -------------------------------
(***************************************************************************)
(* What an error says: the failures of src/error.rs, how a request that     *)
(* got no answer or a refusal becomes one (src/api.rs, src/auth.rs), what   *)
(* is redacted, and what is printed of it (src/output.rs).                  *)
(*                                                                         *)
(* A text is the set of the things it says, and a JSON object the set of    *)
(* its [key, text] fields, nesting left out.                               *)
(***************************************************************************)
EXTENDS Integers, FiniteSets

CONSTANTS
    None,
    Secret,         \* the credential a request presents, wherever a text quotes it
    FreeText,       \* what the auth service says besides an error code
    SecretKeys      \* SECRET_KEYS

ASSUME ReasonsAreShown == "detail" \notin SecretKeys

Redacted == "[REDACTED]"

\* The words of this program in the reports of a command that is at a terminal.
Wordings ==
    {Redacted, "HTTP", "ask Voltage", "not enabled", "quote", "quote mismatch", "retry", "fixed limit", "--timeout",
     "look up first", "check the service", "too large", "reconcile", "may have been submitted", "slow_down",
     "unreadable", "invalid", "expired", "login", "login_expired", "authentication_failed", "auth status", "context",
     "VOLTAGE_API_KEY", "VOLTAGE_CHECKOUT_TOKEN", "VOLTAGE_STREAM_TOKEN", "connect timeout", "timeout", "tls",
     "connect", "other", "interrupted", "terminal", "write", "too long", "not a stream", "disconnected",
     "line too large", "event too large", "invalid UTF-8", "--execute"}

NoDetail == [form |-> "none", status |-> 0, fields |-> {}, top |-> {}, sources |-> None]

Error(kind, message) ==
    [kind |-> kind, message |-> message, hint |-> {}, detail |-> NoDetail, closed |-> FALSE]

ExitCode(kind) ==
    CASE kind = "api" -> 1 [] kind = "usage" -> 2 [] kind = "auth" -> 3 [] kind = "transport" -> 4
      [] kind = "timeout" -> 5 [] kind = "not executed" -> 6 [] OTHER -> 130

KindFor(status) == IF status \in {401, 403} THEN "auth" ELSE "api"

IsSuccess(status) == status \in 200..299
IsClientError(status) == status \in 400..499

-----------------------------------------------------------------------------
(* No response *)

\* TransportFailure::classify, of the causes of a failed request.
Classify(failure) ==
    CASE failure.timeout /\ failure.connect -> "connect timeout"
      [] failure.timeout /\ ~failure.connect -> "timeout"
      [] ~failure.timeout /\ failure.tls -> "tls"
      [] ~failure.timeout /\ ~failure.tls /\ failure.connect -> "connect"
      [] OTHER -> "other"

\* MUTANT of Advice: a timeout is to be retried, also after a write.
AdviceToRetry(failure, write, fixed) ==
    CASE failure = "timeout" -> {"retry", IF fixed THEN "fixed limit" ELSE "--timeout"}
      [] failure = "other" -> {"check the service"} \cup (IF write THEN {"look up first"} ELSE {})
      [] OTHER -> {"check the service"}

\* TransportFailure::next_step.
Advice(failure, write, fixed) ==
    CASE failure = "timeout" ->
           {IF write THEN "look up first" ELSE "retry", IF fixed THEN "fixed limit" ELSE "--timeout"}
      [] failure = "other" -> {"check the service"} \cup (IF write THEN {"look up first"} ELSE {})
      [] OTHER -> {"check the service"}

NoResponse(failure, consequence, write, fixed) ==
    LET class == Classify(failure) IN
    [Error("transport", {class} \cup consequence) EXCEPT !.hint = Advice(class, write, fixed)]

-----------------------------------------------------------------------------
(* The authorization of a request.  An account's key may be the variable's, *)
(* and then `sources` is where the organization came from.                  *)

\* Authorization::rejection_hint.
RejectionHint(authorization, status) ==
    CASE authorization.by \in {"key", "token"} /\ status = 401 -> {"auth status"}
      [] authorization.by \in {"key", "token"} /\ status = 403 ->
           IF authorization.sources = None THEN {"context"}
           ELSE {"VOLTAGE_API_KEY", "context", authorization.sources} \ {"unset"}
      [] authorization.by = "session" /\ status \in {401, 403} -> {"VOLTAGE_CHECKOUT_TOKEN"}
      [] authorization.by = "stream" /\ status \in {401, 403} -> {"VOLTAGE_STREAM_TOKEN"}
      [] OTHER -> {}

\* Authorization::credential_sources.
Sources(authorization, status) == IF status = 403 THEN authorization.sources ELSE None

-----------------------------------------------------------------------------
(* A response: the `type`, the reason (`detail`) and the other fields of its *)
(* `error`, and the fields beside it.                                       *)

\* ApiErrorBody::message.
Message(type, reason, status) ==
    LET shown == IF IsClientError(status) THEN reason ELSE {} IN
    {"HTTP"} \cup shown
        \cup (IF type = "feature_flag_disabled"
              THEN {"ask Voltage"} \cup (IF shown = {} THEN {"not enabled"} ELSE {}) ELSE {})

\* ApiErrorBody::hint.
TypeHint(type, reason) ==
    CASE type = "quote_required" -> {"quote"}
      [] type = "invalid_currency" /\ "quoted amount" \in reason -> {"quote mismatch"}
      [] OTHER -> {}

RedactedText(text, secret) == IF secret \in text THEN (text \ {secret}) \cup {Redacted} ELSE text

\* redact: fields named as secrets, and every text that quotes a presented credential.
RedactedFields(fields, secret) ==
    {IF f.key \in SecretKeys THEN [f EXCEPT !.text = {Redacted}]
     ELSE [f EXCEPT !.text = RedactedText(@, secret)] : f \in fields}

\* Error::redacted.
RedactedError(error, secret) ==
    [error EXCEPT !.message = RedactedText(@, secret),
                  !.detail.fields = RedactedFields(@, secret), !.detail.top = RedactedFields(@, secret)]

\* bounded_body.
BodyError(body, change) ==
    IF body = "large" THEN Error("transport", {"too large"})
    ELSE Error("transport", {IF change THEN "reconcile" ELSE "retry"})

\* A credential the API does not recognize is a rejected one, whatever the status.
RejectedAs(type, status) == IF type = "missing_credentials" THEN 401 ELSE status

Rejection(authorization, response) ==
    LET as == RejectedAs(response.type, response.status)
        hint == RejectionHint(authorization, as)
    IN  [Error(KindFor(response.status), Message(response.type, response.reason, response.status)) EXCEPT
           !.hint = IF hint # {} THEN hint ELSE TypeHint(response.type, response.reason),
           !.detail = [form |-> "http", status |-> response.status, top |-> response.top,
                       fields |-> response.fields,
                       sources |-> Sources(authorization, as)]]

\* A body that is not JSON is omitted, and its status is no HTTP detail unless it has sources.
NonJson(authorization, response) ==
    LET sources == Sources(authorization, response.status) IN
    [Error(IF IsSuccess(response.status) THEN "transport" ELSE KindFor(response.status), {"HTTP"}) EXCEPT
       !.hint = RejectionHint(authorization, response.status),
       !.detail = IF sources = None THEN NoDetail
                  ELSE [NoDetail EXCEPT !.form = "http", !.status = response.status, !.sources = sources]]

Succeeds(response) == response.body \in {"json", "empty"} /\ IsSuccess(response.status)

\* Api::send, of a request that did not succeed.
SendError(authorization, change, response) ==
    CASE response.body = "none" ->
           NoResponse(response.failure, IF change THEN {"may have been submitted"} ELSE {}, change, FALSE)
      [] response.body \in {"large", "cut"} -> BodyError(response.body, change)
      [] response.body = "html" -> NonJson(authorization, response)
      [] OTHER -> RedactedError(Rejection(authorization, response), Secret)

\* AuthResponse::error_code: a plain identifier, never free text.
ErrorCode(response) ==
    IF response.reason = {} \/ FreeText \in response.reason THEN {"authentication_failed"} ELSE response.reason

\* auth_request, require_success: an error of the auth service, or, of a saved login, require_login.
AuthError(response, saved) ==
    CASE response.body = "none" -> NoResponse(response.failure, {}, FALSE, TRUE)
      [] response.body # "none" /\ response.status = 429 -> Error("auth", {"HTTP", "slow_down"})
      [] response.body = "cut" /\ response.status # 429 -> Error("transport", {"unreadable"})
      [] response.body \in {"large", "html"} /\ response.status # 429 -> Error("auth", {"invalid"})
      [] saved /\ response.body \in {"json", "empty"} /\ response.reason = {"invalid_grant"} /\ response.status # 429 ->
           [Error("auth", {"expired"}) EXCEPT
              !.hint = {"login"}, !.detail.form = "credential",
              !.detail.fields = {[key |-> "credential_problem", text |-> {"login_expired"}]}]
      [] OTHER -> Error("auth", {"HTTP"} \cup ErrorCode(response))

-----------------------------------------------------------------------------
(* What is printed *)

Keys(fields) == {f.key : f \in fields}
Texts(fields) == UNION {f.text : f \in fields}

\* human_detail: the error's fields without the reason the message gives, and the response's others.
HumanFields(detail, message) ==
    LET kept == {f \in detail.fields :
                   ~(f.key = "detail" /\ IsClientError(detail.status) /\ f.text \subseteq message)}
    IN  kept \cup {f \in detail.top : f.key \notin Keys(kept)}

\* report_error: what reaches stderr.  `person` reads it on a terminal.
Printed(error, format, person) ==
    LET clean == RedactedFields(error.detail.fields, None)
        top == RedactedFields(error.detail.top, None)
        whole == [message |-> error.message, hint |-> error.hint, fields |-> clean \cup top]
    IN  CASE format # "table" -> whole
          [] format = "table" /\ error.kind = "not executed" /\ person ->
               [message |-> {}, hint |-> {"--execute"}, fields |-> {}]
          [] format = "table" /\ error.detail.form = "http" /\ ~(error.kind = "not executed" /\ person) ->
               [whole EXCEPT !.fields =
                  HumanFields([error.detail EXCEPT !.fields = clean, !.top = top], error.message)]
          [] OTHER -> whole

=============================================================================
