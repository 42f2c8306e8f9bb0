------------------------------- MODULE Tls12 -------------------------------
(* The TLS 1.2 handshake (net/src/tls13.c), whole and shortened by a        *)
(* ticket: the keys change at a ChangeCipherSpec, one for each direction,   *)
(* and stay. The hello is 1.3's (Tls13); the server's choice leads here.    *)
EXTENDS TlsEnd

(* The master secret is of the transcript up to the key exchange, or the    *)
(* one the ticket kept.                                                     *)
Kept == <<"kept">>
Derive(c) == [c EXCEPT !.master = c.tr]

Ccs12(c) == [Emit(c, "ccs", [name |-> "CCS"]) EXCEPT !.write = HsKey, !.seq = 0]

Verify12(c) == c.master \o c.tr
Finished12(c) == HsSend(c, [name |-> "FIN", verify |-> Verify12(c)])

Establish12(c) == [c EXCEPT !.state = "ESTABLISHED"]

-----------------------------------------------------------------------------
(* The client                                                              *)

Client12ServerHello(c, m) ==
    LET r == [TrAdd(c, "SH") EXCEPT !.v12 = TRUE, !.owed = m.ticket]
    IN  CASE c.retried -> Fail(c, "illegal")
          [] m.psk -> [r EXCEPT !.psk = TRUE, !.master = Kept, !.state = "C_WAIT_CCS"]
          [] OTHER -> [r EXCEPT !.state = "C_WAIT_CERT"]

Client12KeyExchange(c) == [TrAdd(c, "SKE") EXCEPT !.state = "C_WAIT_DONE"]

(* The certificate asked for, the key exchange, the proof, the keys         *)
Client12Flight(c) ==
    LET named == IF c.asked THEN CertBuild(c, c.cfg.cert) ELSE c
        keyed == Derive(HsSend(named, [name |-> "CKE"]))
        proved == IF c.asked /\ c.cfg.cert THEN CvBuild(keyed) ELSE keyed
    IN  [Finished12(Ccs12(proved)) EXCEPT !.state = "C_WAIT_CCS"]

(* A session is stored only when the server has proved its Finished         *)
StoreSession(c) == IF c.ticket # <<>> THEN [c EXCEPT !.ticket = c.master] ELSE c

Client12Finished(c, m) ==
    LET heard == TrAdd(c, "FIN")
    IN  IF m.verify # Verify12(c) THEN Fail(c, "decrypt_error")
        ELSE Establish12(StoreSession(
                 IF c.psk THEN Finished12(Ccs12(heard)) ELSE c))

Client12Message(c, m) ==
    CASE c.state = "C_WAIT_CERT" /\ m.name = "CERT" ->
            IF m.empty THEN Fail(c, "decode")
            ELSE CertProcess(c, "C_WAIT_SKE")
      [] c.state = "C_WAIT_SKE" /\ m.name = "SKE" -> Client12KeyExchange(c)
      [] c.state = "C_WAIT_DONE" /\ m.name = "CR" /\ ~c.asked ->
            [TrAdd(c, "CR") EXCEPT !.asked = TRUE]
      [] c.state = "C_WAIT_DONE" /\ m.name = "DONE" -> Client12Flight(TrAdd(c, "DONE"))
      [] c.state = "C_WAIT_CCS" /\ m.name = "NST" /\ c.owed ->
            [TrAdd(c, "NST") EXCEPT !.owed = FALSE, !.ticket = m.secret]
      [] c.state = "C_WAIT_FINISHED" /\ m.name = "FIN" -> Client12Finished(c, m)
      [] OTHER -> Fail(c, "unexpected")

-----------------------------------------------------------------------------
(* The server                                                              *)

Resume12(c) ==
    [Finished12(Ccs12([c EXCEPT !.master = Kept])) EXCEPT !.state = "S_WAIT_CCS"]

Server12KeyExchange(c) == HsSend(c, [name |-> "SKE"])

Server12Flight(c) ==
    LET ask == c.cfg.auth # "none"
        ske == Server12KeyExchange(CertBuild(c, TRUE))
        cr == IF ask THEN HsSend(ske, [name |-> "CR"]) ELSE ske
    IN  [HsSend(cr, [name |-> "DONE"]) EXCEPT
            !.asked = ask, !.state = IF ask THEN "S_WAIT_CERT" ELSE "S_WAIT_CKE"]

Server12ClientHello(c, m) ==
    LET resume == m.psk /\ c.cfg.psk = "good"
        issue == c.cfg.tickets /\ ~resume
        hello == [HsSend(TrAdd(c, "CH"), [name |-> "SH", v12 |-> TRUE, psk |-> resume,
                                          ticket |-> issue])
                    EXCEPT !.v12 = TRUE, !.psk = resume, !.owed = issue]
    IN  IF resume THEN Resume12(hello) ELSE Server12Flight(hello)

Server12SendTicket(c) ==
    [HsSend(c, [name |-> "NST", secret |-> c.master]) EXCEPT !.ticket = c.master]

Server12Finished(c, m) ==
    LET r == TrAdd(c, "FIN")
        told == IF c.owed THEN Server12SendTicket(r) ELSE r
    IN  CASE m.verify # Verify12(c) -> Fail(c, "decrypt_error")
          [] c.psk -> Establish12(c)
          [] OTHER -> Establish12(Finished12(Ccs12(told)))

Server12Message(c, m) ==
    CASE c.state = "S_WAIT_CERT" /\ m.name = "CERT" ->
            IF m.empty /\ c.cfg.auth = "require" THEN Fail(c, "certificate_required")
            ELSE [TrAdd(c, "CERT") EXCEPT !.peerCert = ~m.empty, !.state = "S_WAIT_CKE"]
      [] c.state = "S_WAIT_CKE" /\ m.name = "CKE" ->
            [Derive(TrAdd(c, "CKE")) EXCEPT
                !.state = IF c.peerCert THEN "S_WAIT_CV" ELSE "S_WAIT_CCS"]
      [] c.state = "S_WAIT_CV" /\ m.name = "CV" ->
            CvVerify(c, "S_WAIT_CCS")
      [] c.state = "S_WAIT_FINISHED" /\ m.name = "FIN" -> Server12Finished(c, m)
      [] OTHER -> Fail(c, "unexpected")

-----------------------------------------------------------------------------
(* A new handshake asked for on a connection that has one is declined, and  *)
(* the connection goes on (post12_message).                                 *)
Renegotiate == [role \in {"client", "server"} |-> IF role = "server" THEN "CH" ELSE "HR"]

Post12Message(c, m) ==
    IF m.name = Renegotiate[c.role] THEN Emit(c, "alert", [name |-> "warning"])
    ELSE Fail(c, "unexpected")

(* The one ChangeCipherSpec of a direction, where the keys change           *)
Ccs12Received(c) ==
    CASE c.read # Clear -> Fail(c, "unexpected")
      [] c.state = "C_WAIT_CCS" -> [c EXCEPT !.read = HsKey, !.state = "C_WAIT_FINISHED"]
      [] c.state = "S_WAIT_CCS" -> [c EXCEPT !.read = HsKey, !.state = "S_WAIT_FINISHED"]
      [] OTHER -> Fail(c, "unexpected")
=============================================================================
