------------------------------- MODULE Tls13 -------------------------------
(* The TLS 1.3 handshake over TCP (net/src/tls13.c): hello and retry,       *)
(* resumption, early data offered, taken or refused, client certificates,   *)
(* tickets, and the updates of the keys after it.                           *)
EXTENDS TlsEnd

(* A ChangeCipherSpec, in the clear whatever the keys, once                *)
SendCcs(c) ==
    IF c.ccs THEN c
    ELSE [c EXCEPT !.ccs = TRUE,
                   !.out = Append(@, [key |-> Clear, type |-> "ccs",
                                      m |-> [name |-> "CCS"]])]

Finished(c) == HsSend(c, [name |-> "FIN", verify |-> c.tr])

KeyUpdateSend(c, ask) ==
    KeysWrite(Emit(c, "handshake", [name |-> "KU", ask |-> ask]), c.write + 1)

-----------------------------------------------------------------------------
(* The client                                                              *)

ClientHelloSend(c) ==
    LET early == c.cfg.early # "none" /\ c.cfg.psk # "none" /\ ~c.retried
        sent == HsSend(c, [name |-> "CH", share |-> c.retried \/ ~c.cfg.hrr,
                           psk |-> c.cfg.psk # "none", early |-> early])
    IN  IF early
        THEN [KeysWrite(SendCcs(sent), EarlyKey)
                EXCEPT !.early = "offered", !.left = EarlyMax]
        ELSE sent

ClientRetry(c) ==
    LET r == [TrAdd(c, "HRR") EXCEPT !.retried = TRUE]
    IN  ClientHelloSend(SendCcs(
            IF c.early = "offered"
            THEN [KeysWrite(r, Clear) EXCEPT !.early = "refused"]
            ELSE r))

Client13ServerHello(c, m) ==
    LET r == [KeysRead(TrAdd(c, "SH"), HsKey)
                EXCEPT !.psk = m.psk, !.state = "WAIT_EE",
                       !.early = IF @ = "offered" /\ ~m.psk THEN "refused" ELSE @]
    IN  CASE m.name = "HRR" -> IF c.retried THEN Fail(c, "unexpected")
                               ELSE ClientRetry(c)
          [] m.psk /\ c.cfg.psk = "none" -> Fail(c, "illegal")
          [] OTHER -> IF r.early # "offered" THEN KeysWrite(r, HsKey) ELSE r

ClientEncryptedExtensions(c, m) ==
    LET r == [TrAdd(c, "EE") EXCEPT
                !.state = IF c.psk THEN "WAIT_FINISHED" ELSE "WAIT_CERT_CR"]
    IN  CASE m.early /\ c.early # "offered" -> Fail(c, "unsupported")
          [] c.early # "offered" -> r
          [] m.early -> [r EXCEPT !.early = "accepted"]
          [] OTHER -> [KeysWrite(r, HsKey) EXCEPT !.early = "refused"]

ClientCertificateRequest(c) == [TrAdd(c, "CR") EXCEPT !.asked = TRUE, !.state = "WAIT_CERT"]

(* The whole second flight, and the keys of the application with it        *)
ClientFinished(c, m) ==
    LET r == SendCcs(KeysRead(TrAdd(c, "FIN"), AppKey))
        ended == IF c.early = "accepted"
                 THEN KeysWrite(HsSend(r, [name |-> "EOED"]), HsKey) ELSE r
        named == CASE ~c.asked   -> ended
                   [] c.cfg.cert -> CvBuild(CertBuild(ended, TRUE))
                   [] OTHER      -> CertBuild(ended, FALSE)
    IN  IF m.verify # c.tr THEN Fail(c, "decrypt_error")
        ELSE [KeysWrite(Finished(named), AppKey) EXCEPT !.state = "ESTABLISHED"]

ClientMessage(c, m) ==
    CASE c.state = "WAIT_SH" /\ m.name \in {"SH", "HRR"} -> Client13ServerHello(c, m)
      [] c.state = "WAIT_EE" /\ m.name = "EE" -> ClientEncryptedExtensions(c, m)
      [] c.state = "WAIT_CERT_CR" /\ m.name = "CR" -> ClientCertificateRequest(c)
      [] c.state \in {"WAIT_CERT_CR", "WAIT_CERT"} /\ m.name = "CERT" ->
            IF m.empty THEN Fail(c, "decode")
            ELSE CertProcess(c, "WAIT_CV")
      [] c.state = "WAIT_CV" /\ m.name = "CV" -> CvVerify(c, "WAIT_FINISHED")
      [] c.state = "WAIT_FINISHED" /\ m.name = "FIN" -> ClientFinished(c, m)
      [] OTHER -> Fail(c, "unexpected")

-----------------------------------------------------------------------------
(* The server                                                              *)

(* A ticket is the secret of a transcript that ends with the client's      *)
(* Finished. Sent before that has come, it is of the transcript foreseen.  *)
SendTicket(c, tr) ==
    [Emit(c, "handshake", [name |-> "NST", secret |-> tr]) EXCEPT !.ticket = tr]

(* Early data in the hello: what of it is not taken is to be passed over    *)
ReadEarlyData(c, m) ==
    IF m.early THEN [c EXCEPT !.early = "refused",
                              !.skip = IF c.retried THEN @ ELSE EarlySkip]
    ELSE c

ServerRetry(c) ==
    SendCcs(HsSend([TrAdd(c, "CH") EXCEPT !.retried = TRUE], [name |-> "HRR"]))

ServerEarlyOk(c) == c.cfg.early = "taken" /\ c.psk /\ ~c.retried

TakeEarly(c) ==
    IF c.early = "refused" /\ ServerEarlyOk(c)
    THEN [c EXCEPT !.early = "accepted", !.left = EarlyMax, !.skip = 0]
    ELSE c

(* What the server expects of the client, and so of the transcript         *)
ForeseenPlain(c) == Append(c.tr, "FIN")
Foreseen(c) ==
    (IF c.early = "accepted" THEN Append(c.tr, "EOED") ELSE c.tr) \o <<"FIN">>

ServerHelloFlight(c) ==
    LET keyed == KeysRead(KeysWrite(SendCcs(HsSend(c, [name |-> "SH", v12 |-> FALSE,
                                                  psk |-> c.psk])),
                                    HsKey),
                          IF c.early = "accepted" THEN EarlyKey ELSE HsKey)
        ee == HsSend(keyed, [name |-> "EE", early |-> c.early = "accepted"])
        ask == ~c.psk /\ c.cfg.auth # "none"
        cr == IF ask THEN HsSend(ee, [name |-> "CR"]) ELSE ee
        named == IF c.psk THEN cr ELSE CvBuild(CertBuild(cr, TRUE))
        fin == [KeysWrite(Finished(named), AppKey) EXCEPT
                  !.asked = ask,
                  !.state = CASE c.early = "accepted" -> "WAIT_EOED"
                              [] ask   -> "WAIT_CERT"
                              [] OTHER -> "WAIT_FINISHED"]
    IN  IF ~ask /\ c.cfg.tickets THEN SendTicket(fin, Foreseen(fin)) ELSE fin

OpenTicket(c, m) == [c EXCEPT !.psk = m.psk /\ c.cfg.psk = "good"]

ServerClientHello(c, m) ==
    LET heard == ReadEarlyData(c, m)
    IN  CASE ~m.share -> IF c.retried THEN Fail(heard, "illegal") ELSE ServerRetry(heard)
          [] OTHER -> ServerHelloFlight(TakeEarly(TrAdd(OpenTicket(heard, m), "CH")))

ServerFinished(c, m) ==
    LET r == [KeysRead(TrAdd(c, "FIN"), AppKey) EXCEPT !.state = "ESTABLISHED"]
    IN  IF m.verify # c.tr THEN Fail(c, "decrypt_error")
        ELSE IF c.cfg.tickets /\ c.ticket = <<>> THEN SendTicket(r, r.tr) ELSE r

ServerMessage(c, m) ==
    CASE c.state = "WAIT_CH" /\ m.name = "CH" -> ServerClientHello(c, m)
      [] c.state = "WAIT_EOED" /\ m.name = "EOED" ->
            [KeysRead(TrAdd(c, "EOED"), HsKey) EXCEPT !.state = "WAIT_FINISHED"]
      [] c.state = "WAIT_CERT" /\ m.name = "CERT" ->
            CASE m.empty /\ c.cfg.auth = "require" -> Fail(c, "certificate_required")
              [] m.empty -> [TrAdd(c, "CERT") EXCEPT !.state = "WAIT_FINISHED"]
              [] OTHER -> CertProcess(c, "WAIT_CV")
      [] c.state = "WAIT_CV" /\ m.name = "CV" -> CvVerify(c, "WAIT_FINISHED")
      [] c.state = "WAIT_FINISHED" /\ m.name = "FIN" -> ServerFinished(c, m)
      [] OTHER -> Fail(c, "unexpected")

-----------------------------------------------------------------------------
StoreTicket(c, m) == [c EXCEPT !.ticket = m.secret]

Rotate(c) == KeysRead(c, c.read + 1)

(* A request to update is answered at once, behind what waits to be sent    *)
PostMessage(c, m) ==
    LET r == Rotate(c)
    IN  CASE m.name = "NST" /\ c.role = "client" -> StoreTicket(c, m)
          [] m.name = "KU" ->
                CASE ~m.ask \/ c.closed # "no" -> r
                  [] Unsent(c) > MaxUnsent -> Fail(r, "unexpected")
                  [] OTHER -> KeyUpdateSend(r, FALSE)
          [] OTHER -> Fail(c, "unexpected")

(* Early data that is not taken is passed over, by the length of its       *)
(* records: until one opens, or, after a retry, until the second hello.     *)
SkipKeyedOnly(c, r, keyed) == LengthOf(r) <= c.skip /\ keyed   \* a retry's come in the clear

MaySkip(c, r, keyed) ==
    /\ c.skip > 0 /\ LengthOf(r) <= c.skip
    /\ IF keyed THEN ~c.retried ELSE c.retried /\ c.state = "WAIT_CH"

Skipped(c, r) == [c EXCEPT !.skip = @ - LengthOf(r)]
=============================================================================
