------------------------------- MODULE Mail -------------------------------
(* base/mail: the SMTP mailer.  One caller runs Send or SendBulk; the SMTP  *)
(* server is external: it may refuse a command for now or for good, drop    *)
(* the connection at any point, and drop it after it took a message and     *)
(* before its answer arrives.                                               *)
EXTENDS Naturals, Sequences, SequencesExt, FiniteSets

CONSTANTS
    Mails,       \* the batches a caller may send: sequences of messages
    Settings,    \* the configurations passed to New
    Servers,     \* what the server advertises: records [starttls, auth]
    MaxFaults    \* bound: refusals and losses of one call

(* A message has From and its recipients as "ok", "blank" or "bad" (not a   *)
(* bare address) and the bodies and attachments as strings, "" for none.    *)
ASSUME MailAssumption ==
    /\ \A ms \in Mails : \A k \in DOMAIN ms :
         /\ DOMAIN ms[k] = {"from", "to", "bcc", "html", "text", "files"}
         /\ Range(<<ms[k].from>> \o ms[k].to \o ms[k].bcc) \subseteq {"ok", "blank", "bad"}
    /\ MaxFaults \in Nat

VARIABLES
    mail,    \* the call: its batch, where it is, its connection and result
    box      \* the messages the server took, in order
mailVars == <<mail, box>>

NoSmtp == [up |-> FALSE, tls |-> FALSE, authed |-> FALSE, rcpts |-> << >>, open |-> FALSE]
NoMail == [pc |-> "idle", op |-> "none", cfg |-> << >>, server |-> << >>, msgs |-> << >>, i |-> 1,
           c |-> NoSmtp, back |-> "none", inBatch |-> 0, attempt |-> 0, canceled |-> FALSE,
           faults |-> 0, err |-> "none", sent |-> 0, failed |-> << >>]

MailInit == mail = NoMail /\ box = << >>

-----------------------------------------------------------------------------
(* Configuration and validation *)

(* Config.validate: the defaults of the enums, and what is refused. *)
ConfigFails(c) ==
    \/ c.host = "" \/ c.from # "ok"
    \/ c.encryption \notin {"none", "starttls", "tls", ""}
    \/ c.auth \notin {"none", "plain", "login", "cram-md5", ""}
Normalized(c) ==
    [c EXCEPT !.encryption = IF @ = "" THEN "starttls" ELSE @,
              !.auth = IF @ # "" THEN @ ELSE IF c.username THEN "plain" ELSE "none"]

Recipients(m) == SelectSeq(m.to \o m.bcc, LAMBDA a : a # "blank")

MessageFails(m) ==
    \/ m.from = "blank"
    \/ Recipients(m) = << >>
    \/ m.html = "" /\ m.text = ""
    \/ "bad" \in Range(<<m.from>> \o m.to \o m.bcc)

(* writeMessage and writeBody: the MIME tree of the message, and the        *)
(* addresses its headers name.                                              *)
Leaf(type, body) == [type |-> type, body |-> body, parts |-> << >>]
Tree(type, parts) == [type |-> type, body |-> "", parts |-> parts]
BodyPart(m) ==
    IF m.html # "" /\ m.text # ""
    THEN Tree("alternative", <<Leaf("plain", m.text), Leaf("html", m.html)>>)
    ELSE IF m.html # "" THEN Leaf("html", m.html) ELSE Leaf("plain", m.text)
Written(m) ==
    [header |-> m.to,
     mime |-> IF m.files = << >> THEN BodyPart(m)
              ELSE Tree("mixed", <<BodyPart(m)>> \o [k \in DOMAIN m.files |-> Leaf("file", m.files[k])])]

-----------------------------------------------------------------------------
(* Calls *)

(* New followed by Send or SendBulk. *)
CallSend(op, ms, c, server) ==
    /\ mail.pc = "idle"
    /\ op = "send" => Len(ms) = 1
    /\ LET begun == [mail EXCEPT !.op = op, !.msgs = ms, !.cfg = Normalized(c), !.server = server]
       IN mail' = IF ConfigFails(c) \/ (op = "send" /\ MessageFails(ms[1]))
                  THEN [begun EXCEPT !.pc = "returned", !.err = "config"]
                  ELSE IF ms = << >> THEN [begun EXCEPT !.pc = "returned"]
                  ELSE [begun EXCEPT !.pc = "dial", !.back = "start"]
    /\ UNCHANGED box

CancelCall ==
    /\ mail.pc \notin {"idle", "returned"} /\ ~mail.canceled
    /\ mail' = [mail EXCEPT !.canceled = TRUE]
    /\ UNCHANGED box

(* failRemaining: every message from j on fails with the same error. *)
FailRemaining(m, j) ==
    [m EXCEPT !.pc = "returned", !.c = NoSmtp,
              !.failed = @ \o [k \in 1 .. (Len(m.msgs) + 1 - j) |-> j + k - 1]]

(* SendBulk after a connect that failed: the batch does not start, the      *)
(* recycle of message i fails it and the rest, the recover after message i  *)
(* fails the rest.                                                          *)
BulkUnconnectedAt(m, err) ==
    IF m.back = "start" THEN [m EXCEPT !.pc = "returned", !.err = err, !.c = NoSmtp]
    ELSE FailRemaining(m, m.i)
BulkUnconnected(m, err) ==
    CASE m.back = "start" -> [m EXCEPT !.pc = "returned", !.err = err, !.c = NoSmtp]
      [] m.back = "recycle" -> FailRemaining(m, m.i)
      [] m.back = "recover" -> FailRemaining(m, m.i + 1)
Unconnected(m, err) ==
    IF m.op = "send" THEN [m EXCEPT !.pc = "failed", !.err = err, !.c = NoSmtp]
    ELSE BulkUnconnected(m, err)

Faulted == [mail EXCEPT !.faults = @ + 1]
Faulty == mail.faults < MaxFaults

(* dial: the transport, TLS on it or STARTTLS after the greeting. *)
Dial ==
    /\ mail.pc = "dial" /\ ~mail.canceled
    /\ mail' = IF mail.cfg.encryption = "starttls" /\ ~mail.server.starttls
               THEN Unconnected(mail, "config")
               ELSE [mail EXCEPT !.pc = "auth",
                       !.c = [NoSmtp EXCEPT !.up = TRUE, !.tls = mail.cfg.encryption # "none"]]
    /\ UNCHANGED box
DialFails ==
    /\ mail.pc = "dial"
    /\ \/ mail.canceled /\ mail' = Unconnected(mail, "network")
       \/ Faulty /\ \E e \in {"network", "temporary", "permanent"} : mail' = Unconnected(Faulted, e)
    /\ UNCHANGED box

(* authenticate: with the mechanisms that refuse a connection in the clear. *)
(* LOGIN reports that refusal as a configuration error, PLAIN (net/smtp)    *)
(* as one of its own, which isRetryable takes for a network error.          *)
InClear == ~mail.c.tls /\ ~mail.cfg.local
AuthError ==
    CASE mail.cfg.auth = "none" -> "none"
      [] mail.cfg.auth # "none" /\ ~mail.server.auth -> "config"
      [] mail.cfg.auth = "login" /\ mail.server.auth /\ InClear -> "config"
      [] mail.cfg.auth = "plain" /\ mail.server.auth /\ InClear -> "network"
      [] OTHER -> "none"
Connected(m) == [m EXCEPT !.pc = IF m.op = "bulk" /\ m.back = "recover" THEN "next" ELSE
                                 IF m.op = "bulk" /\ m.back = "start" THEN "message" ELSE "mail"]
SmtpAuth ==
    /\ mail.pc = "auth"
    /\ mail' = IF AuthError = "none"
               THEN Connected([mail EXCEPT !.c.authed = mail.cfg.auth # "none"])
               ELSE Unconnected(mail, AuthError)
    /\ UNCHANGED box
AuthRefused ==
    /\ mail.pc = "auth" /\ mail.cfg.auth # "none" /\ AuthError = "none" /\ Faulty
    /\ \E e \in {"network", "temporary", "permanent"} : mail' = Unconnected(Faulted, e)
    /\ UNCHANGED box

-----------------------------------------------------------------------------
(* deliver: MAIL FROM, one RCPT TO per recipient, DATA *)

Delivered(m) ==
    IF m.op = "send" THEN [m EXCEPT !.pc = "returned", !.err = "none", !.c = NoSmtp]
    ELSE [m EXCEPT !.sent = @ + 1, !.inBatch = @ + 1, !.pc = "recover"]
Undelivered(m, err) ==
    IF m.op = "send" THEN [m EXCEPT !.pc = "failed", !.err = err, !.c = NoSmtp]
    ELSE [m EXCEPT !.failed = Append(@, m.i), !.pc = "recover"]

(* The server refuses a second MAIL inside an open transaction. *)
MailFrom ==
    /\ mail.pc = "mail"
    /\ mail' = IF mail.c.open THEN Undelivered(mail, "permanent")
               ELSE [mail EXCEPT !.pc = "rcpt", !.c.open = TRUE, !.c.rcpts = << >>]
    /\ UNCHANGED box

RcptTo ==
    /\ mail.pc = "rcpt"
    /\ LET all == Recipients(mail.msgs[mail.i])
           n == Len(mail.c.rcpts)
       IN mail' = IF n = Len(all) THEN [mail EXCEPT !.pc = "data"]
                  ELSE [mail EXCEPT !.c.rcpts = Append(@, all[n + 1])]
    /\ UNCHANGED box

(* The server takes the message when it reads the final dot. *)
Taken == Append(box, [i |-> mail.i, rcpts |-> mail.c.rcpts, content |-> Written(mail.msgs[mail.i])])
Data ==
    /\ mail.pc = "data"
    /\ mail' = Delivered([mail EXCEPT !.c.open = FALSE])
    /\ box' = Taken

Refused ==
    /\ mail.pc \in {"mail", "rcpt", "data"} /\ Faulty
    /\ \E e \in {"temporary", "permanent"} :
         mail' = Undelivered([Faulted EXCEPT !.c.open = mail.pc = "rcpt"], e)
    /\ UNCHANGED box
ConnectionLost ==
    /\ mail.pc \in {"mail", "rcpt", "data"} /\ Faulty
    /\ mail' = Undelivered([Faulted EXCEPT !.c.up = FALSE], "network")
    /\ box' \in {box} \cup (IF mail.pc = "data" THEN {Taken} ELSE {})

-----------------------------------------------------------------------------
(* Send: withRetry *)

IsRetryable(err) == err \in {"network", "temporary"}

RetrySend ==
    /\ mail.pc = "failed"
    /\ mail' = IF ~IsRetryable(mail.err) \/ mail.attempt = mail.cfg.retries
               THEN [mail EXCEPT !.pc = "returned"]
               ELSE [mail EXCEPT !.pc = "backoff", !.attempt = @ + 1]
    /\ UNCHANGED box
BackoffEnds ==
    /\ mail.pc = "backoff"
    /\ mail' = [mail EXCEPT !.pc = "dial"]
    /\ UNCHANGED box
BackoffCanceled ==
    /\ mail.pc = "backoff" /\ mail.canceled
    /\ mail' = [mail EXCEPT !.pc = "returned", !.err = "context"]
    /\ UNCHANGED box

-----------------------------------------------------------------------------
(* SendBulk *)

(* The head of the loop: validate, then recycle. *)
BulkMessage ==
    /\ mail.pc = "message"
    /\ mail' = CASE mail.i > Len(mail.msgs) -> [mail EXCEPT !.pc = "returned", !.c = NoSmtp]
                 [] mail.i <= Len(mail.msgs) /\ MessageFails(mail.msgs[mail.i]) ->
                      [mail EXCEPT !.failed = Append(@, mail.i), !.i = @ + 1]
                 [] OTHER ->
                      IF mail.cfg.pool = 0 \/ mail.inBatch < mail.cfg.pool
                      THEN [mail EXCEPT !.pc = "mail"]
                      ELSE [mail EXCEPT !.pc = "dial", !.back = "recycle", !.inBatch = 0, !.c = NoSmtp]
    /\ UNCHANGED box

(* recover: RSET on the connection, or another connection. *)
RecoverResets ==
    /\ mail.pc = "recover" /\ mail.c.up
    /\ mail' = [mail EXCEPT !.pc = "next", !.c.open = FALSE]
    /\ UNCHANGED box
RecoverReconnects ==
    /\ mail.pc = "recover"
    /\ \/ ~mail.c.up /\ mail' = [mail EXCEPT !.pc = "dial", !.back = "recover", !.c = NoSmtp]
       \/ mail.c.up /\ Faulty
          /\ mail' = [Faulted EXCEPT !.pc = "dial", !.back = "recover", !.c = NoSmtp]
    /\ UNCHANGED box
BulkNext ==
    /\ mail.pc = "next"
    /\ mail' = [mail EXCEPT !.pc = "message", !.i = @ + 1]
    /\ UNCHANGED box

MailNext ==
    \/ \E op \in {"send", "bulk"}, ms \in Mails, c \in Settings, server \in Servers :
         CallSend(op, ms, c, server)
    \/ CancelCall \/ Dial \/ DialFails \/ SmtpAuth \/ AuthRefused
    \/ MailFrom \/ RcptTo \/ Data \/ Refused \/ ConnectionLost
    \/ RetrySend \/ BackoffEnds \/ BackoffCanceled
    \/ BulkMessage \/ RecoverResets \/ RecoverReconnects \/ BulkNext

-----------------------------------------------------------------------------
(* Properties *)

Copies(i) == Cardinality({k \in DOMAIN box : box[k].i = i})

(* The answer of a send accounts for every message (Send, SendBulk and its  *)
(* BulkResult).  What the server took is a whole message: all its           *)
(* recipients, the blind ones too, and its bodies, with no blind recipient  *)
(* named in the header.  A nil Send means the server took the message, at   *)
(* most once per attempt.  A started SendBulk reports each message once,    *)
(* as sent or as failed; the server took a message reported as sent exactly *)
(* once and one reported as failed at most once, and in the batch's order.  *)
MailAccounted ==
    /\ \A k \in DOMAIN box :
         LET m == mail.msgs[box[k].i]
             mime == box[k].content.mime
             body == IF mime.type = "mixed" THEN mime.parts[1] ELSE mime
             bodies == IF body.type = "alternative" THEN Range(body.parts) ELSE {body}
         IN /\ ~MessageFails(m)
            /\ box[k].rcpts = Recipients(m)
            /\ Len(box[k].content.header) = Len(m.to)
            /\ {b.body : b \in bodies} = {m.html, m.text} \ {""}
            /\ [j \in DOMAIN m.files |-> mime.parts[j + 1].body] = m.files
    /\ (mail.pc = "returned" /\ mail.op = "send") =>
         /\ mail.err = "none" => Copies(1) >= 1
         /\ Copies(1) <= mail.attempt + 1
    /\ (mail.pc = "returned" /\ mail.op = "bulk" /\ mail.err = "none") =>
         /\ mail.sent + Len(mail.failed) = Len(mail.msgs)
         /\ \A i \in DOMAIN mail.msgs :
              IF i \in Range(mail.failed) THEN Copies(i) <= 1 ELSE Copies(i) = 1
         /\ \A j, k \in DOMAIN box : j < k => box[j].i < box[k].i
=============================================================================
