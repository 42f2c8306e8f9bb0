------------------------------- MODULE TlsEnd -------------------------------
(* One end of a TLS connection (net/src/tls13.c): what it holds, how it     *)
(* seals what it sends, and what both versions of the protocol share.       *)
(*                                                                          *)
(* A message stands for its content as far as the other end acts on it, a   *)
(* secret for the transcript it is derived from, and a record for the key   *)
(* it is sealed with: a record opens under that key alone. Each handshake   *)
(* message is a record of its own, as emit makes it. Keys are numbered in   *)
(* the order an end can hold them.                                          *)
EXTENDS Integers, Sequences
LOCAL INSTANCE SequencesExt

CONSTANTS
    EarlyMax,   \* early data a ticket allows, without its records (TLS_EARLY_TCP_MAX)
    EarlySkip,  \* refused early records passed over, by length (TLS_EARLY_SKIP)
    Overhead,   \* what a record adds to its content: header, type, tag
    MaxUnsent,  \* output waiting above which an end takes no more (TLS_MAX_UNSENT)
    MaxSeq      \* records sealed before the key is replaced (2^24)

Clear == 0
EarlyKey == 1
HsKey == 2
AppKey == 3      \* and one more for each update

(* A record's length: that of the data in it, or of something short          *)
LengthOf(r) == Overhead + IF r.type = "data" THEN r.m.size ELSE 1
Unsent(c) == FoldLeft(LAMBDA sum, r : sum + LengthOf(r), 0, c.out)

(* cfg is what the two ends were configured for and will be asked to do.    *)
(* burden is kept for NoHonestAlert: what was unsent when the end failed.   *)
Fresh(role, cfg) ==
    [role    |-> role, cfg |-> cfg, v12 |-> FALSE,
     state   |-> IF role = "client" THEN "WAIT_SH" ELSE "WAIT_CH",
     read    |-> Clear, write |-> Clear, seq |-> 0,
     tr      |-> <<>>,                     \* the transcript, by message
     early   |-> "none", left |-> 0, skip |-> 0,
     psk     |-> FALSE, retried |-> FALSE, ccs |-> FALSE,
     asked   |-> FALSE, peerCert |-> FALSE,
     owed    |-> FALSE,                    \* TLS 1.2: a ticket is promised
     master  |-> <<>>,                     \* TLS 1.2: the master secret
     ticket  |-> <<>>,                     \* the resumption secret sent or stored
     plain   |-> 0, got |-> <<>>, sent |-> <<>>,
     closed  |-> "no", eof |-> FALSE,
     out     |-> <<>>, fault |-> "none", burden |-> 0]

Established(c) == c.state = "ESTABLISHED"
Dead(c) == c.fault # "none"

Emit(c, type, m) ==
    [c EXCEPT !.out = Append(@, [key |-> c.write, type |-> type, m |-> m]),
              !.seq = @ + 1]

KeysWrite(c, k) == [c EXCEPT !.write = k, !.seq = 0]
KeysRead(c, k) == [c EXCEPT !.read = k]

TrAdd(c, name) == [c EXCEPT !.tr = Append(@, name)]

HsSend(c, m) == TrAdd(Emit(c, "handshake", m), m.name)

(* A certificate, or none, and the proof of its key; and such from the peer *)
CertBuild(c, present) == HsSend(c, [name |-> "CERT", empty |-> ~present])
CvBuild(c) == HsSend(c, [name |-> "CV"])
CertProcess(c, next) == [TrAdd(c, "CERT") EXCEPT !.peerCert = TRUE, !.state = next]
CvVerify(c, next) == [TrAdd(c, "CV") EXCEPT !.state = next]

Fail(c, why) ==
    [Emit(c, "alert", [name |-> "fatal"]) EXCEPT !.fault = why, !.burden = Unsent(c)]

=============================================================================
