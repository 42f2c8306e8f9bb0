------------------------------- MODULE Qpack -------------------------------
(***************************************************************************)
(* The dynamic table of QPACK (qpack.c) between the encoder of one end of  *)
(* an HTTP/3 connection and the decoder of the other (h3_conn.c).  Three   *)
(* kinds of stream join them and none waits for another: the encoder's     *)
(* inserts, the decoder's acknowledgements, and the streams that carry     *)
(* the sections.                                                           *)
(*                                                                         *)
(* This library's encoder refers only to entries the peer has said it has. *)
(* Another's (plan.eager) refers to new ones too, while no more streams    *)
(* may have to wait than the decoder allows; it is written from what the   *)
(* decoder's code expects of it.                                           *)
(***************************************************************************)
EXTENDS Integers, SequencesExt, FiniteSetsExt

CONSTANTS
    Cap,            \* qenc->cap: what the table holds, 32 and its bytes for an entry
    PeerMax,        \* what the decoder announced (max_cap)
    Blocked,        \* cfg_qblocked: streams that may wait at a time
    Streams,        \* bound: the streams the sections go on
    Plans           \* bound: the sections to send, and what befalls the streams

VARIABLES
    enc,            \* proven_qpack_enc_t
    dec,            \* proven_qpack_dec_t, and h3_conn's qknown
    inserts,        \* instructions on their way on the encoder's stream
    acks,           \* and on the decoder's
    stream,         \* [stream -> its sections on their way, and how it is read]
    fault,          \* what ended the connection
    plan

vars == <<enc, dec, inserts, acks, stream, fault, plan>>

MaxEntries == PeerMax \div 32
Full == 2 * MaxEntries
Never == -1

(* A field: its name and value, its size in the table, and whether it may  *)
(* not be put there (never), or is whole in the static table (static).     *)
Same(f, g) == f.name = g.name /\ f.value = g.value

-----------------------------------------------------------------------------
(* The encoder.  ents is oldest first; the absolute index of ents[i] is    *)
(* inserts - Len(ents) + i - 1.                                            *)

Abs(t, i) == t.inserts - Len(t.ents) + i - 1
Entry(t, abs) == t.ents[abs - (t.inserts - Len(t.ents)) + 1]
InTable(t, abs) == abs >= t.inserts - Len(t.ents) /\ abs < t.inserts
Size(ents) == FoldLeft(LAMBDA n, f : n + f.size, 0, ents)

NewestOf(S) == IF S = {} THEN Never ELSE Max(S)
Whole(t, f, seen) == NewestOf({abs \in {Abs(t, i) : i \in DOMAIN t.ents} :
                                  abs < seen /\ Same(Entry(t, abs), f)})
Named(t, f, seen) == NewestOf({abs \in {Abs(t, i) : i \in DOMAIN t.ents} :
                                  abs < seen /\ Entry(t, abs).name = f.name})
Present(t, f) == \E i \in DOMAIN t.ents : Same(t.ents[i], f)

(* The lowest entry that a section not yet acknowledged refers to, or this *)
(* one so far (also).                                                      *)
Low(e, also) == Min({e.outs[i].low : i \in DOMAIN e.outs} \cup {also})

(* How many of the oldest would have to go for size more                   *)
ToEvict(t, size) == CHOOSE n \in 0..Len(t.ents) :
    /\ Size(SubSeq(t.ents, n + 1, Len(t.ents))) + size <= Cap
    /\ \A m \in 0..(n - 1) : Size(SubSeq(t.ents, m + 1, Len(t.ents))) + size > Cap

Room(e, size, also) ==
    LET n == ToEvict(e, size)
    IN  n = 0 \/ (Abs(e, n) < e.known /\ Abs(e, n) < Low(e, also))

Insert(t, f) ==
    [t EXCEPT !.ents = Append(SubSeq(@, ToEvict(t, f.size) + 1, Len(@)), f), !.inserts = @ + 1]

(* One field of a section; a is what has been made of those before it:     *)
(* the encoder, the inserts, the lines, and the highest and lowest entry   *)
(* referred to.                                                            *)
EncodeField(a, f, seen) ==
    LET fit == /\ ~f.never /\ ~Present(a.e, f) /\ f.size <= Cap \div 4
               /\ Room(a.e, f.size, a.low)
        e2 == IF fit THEN [Insert(a.e, f) EXCEPT !.capSent = TRUE] ELSE a.e
        new == IF ~fit THEN <<>>
               ELSE (IF a.e.capSent THEN <<>> ELSE <<[do |-> "capacity"]>>)
                    \o <<[do |-> "insert", field |-> f]>>
        whole == IF f.never THEN Never ELSE Whole(a.e, f, seen)
        named == Named(e2, f, seen)
        Refer(b, rep, abs) ==
            [b EXCEPT !.lines = Append(@, [rep |-> rep, abs |-> abs, field |-> f]),
                      !.top = Max({@, abs + 1}), !.low = Min({@, abs})]
        Plain(b, rep) == [b EXCEPT !.lines = Append(@, [rep |-> rep, abs |-> 0, field |-> f])]
        inserted == [a EXCEPT !.e = e2, !.ins = @ \o new]
    IN  CASE f.static /\ ~f.never -> Plain(a, "static")
          [] ~f.static /\ whole # Never -> Refer(a, "whole", whole)
          [] whole = Never /\ named # Never -> Refer(inserted, "named", named)
          [] OTHER -> Plain(inserted, "literal")

(* The prefix and, in each line, an index back from the Base, which is the *)
(* Required Insert Count.                                                  *)
Section(a, fields) ==
    [ric |-> IF a.top = 0 THEN 0 ELSE (a.top % Full) + 1,
     lines |-> [i \in DOMAIN a.lines |-> [a.lines[i] EXCEPT !.abs = a.top - 1 - @]],
     fields |-> fields]

Sent(e, id, a) ==
    IF a.top = 0 THEN e
    ELSE [e EXCEPT !.outs = Append(@, [stream |-> id, ric |-> a.top, low |-> a.low])]

(* Mutant: a cancelled stream gives up one section only.                   *)
EncFeedOneOnly(e, ack) ==
    LET O == {i \in DOMAIN e.outs : e.outs[i].stream = ack.id}
    IN  CASE ack.do = "section" ->
                IF O = {} THEN [e EXCEPT !.fault = "an acknowledgement too many"]
                ELSE [e EXCEPT !.known = Max({@, e.outs[Min(O)].ric}), !.outs = RemoveAt(@, Min(O))]
          [] ack.do = "cancel" -> IF O = {} THEN e ELSE [e EXCEPT !.outs = RemoveAt(@, Min(O))]
          [] ack.do = "count" -> [e EXCEPT !.known = @ + ack.n]

(* What the decoder's stream says, one instruction                         *)
EncFeed(e, ack) ==
    LET O == {i \in DOMAIN e.outs : e.outs[i].stream = ack.id}
        oldest == Min(O)
    IN  CASE ack.do = "section" ->
                IF O = {} THEN [e EXCEPT !.fault = "an acknowledgement too many"]
                ELSE [e EXCEPT !.known = Max({@, e.outs[oldest].ric}), !.outs = RemoveAt(@, oldest)]
          [] ack.do = "cancel" ->
                [e EXCEPT !.outs = SelectSeq(@, LAMBDA o : o.stream # ack.id)]
          [] ack.do = "count" ->
                IF ack.n = 0 \/ ack.n > e.inserts - e.known THEN [e EXCEPT !.fault = "a count too high"]
                ELSE [e EXCEPT !.known = @ + ack.n]

-----------------------------------------------------------------------------
(* The decoder                                                             *)

DecFeed(d, ins) ==
    CASE ins.do = "capacity" -> [d EXCEPT !.cap = Cap]
      [] ins.do = "insert" ->
            IF ins.field.size > d.cap THEN [d EXCEPT !.fault = "an insert too large"]
            ELSE Insert(d, ins.field)

(* The Required Insert Count from its encoded form, or Never               *)
Required(d, ric) ==
    LET most == d.inserts + MaxEntries
        r == (most \div Full) * Full + ric - 1
        back == IF r > most THEN r - Full ELSE r
    IN  CASE ric = 0 -> 0
          [] ric > Full -> Never
          [] OTHER -> IF (r > most /\ r <= Full) \/ back = 0 THEN Never ELSE back

(* The fields of a section, or a fault                                     *)
Decode(d, section) ==
    LET ric == Required(d, section.ric)
        dynamic == {i \in DOMAIN section.lines : section.lines[i].rep \in {"whole", "named"}}
        At(i) == ric - 1 - section.lines[i].abs
        ok == /\ ric # Never /\ ric <= d.inserts
              /\ \A i \in dynamic : At(i) >= 0 /\ InTable(d, At(i))
              /\ ric = 0 \/ (dynamic # {} /\ Max({At(i) : i \in dynamic}) + 1 = ric)
        Field(i) ==
            LET line == section.lines[i]
            IN  CASE line.rep = "whole" -> <<Entry(d, At(i)).name, Entry(d, At(i)).value>>
                  [] line.rep = "named" -> <<Entry(d, At(i)).name, line.field.value>>
                  [] OTHER -> <<line.field.name, line.field.value>>
    IN  [ok |-> ok, fields |-> IF ok THEN [i \in DOMAIN section.lines |-> Field(i)] ELSE <<>>,
         ric |-> ric]

Waiting == {id \in Streams : stream[id].state = "waiting"}
(* Streams whose inserts have come: the connection is polled until none is *)
(* left before anything else is read (proven_h3_conn_poll).                *)
Ready == {id \in Waiting : stream[id].ric <= dec.inserts /\ ~stream[id].paused}

-----------------------------------------------------------------------------
(* Actions                                                                 *)

(* A section is encoded and goes, on a stream of its own or as trailers    *)
(* (h3_put_headers, proven_qpack_enc_sent).  It is lost when the peer has  *)
(* dropped the stream.                                                     *)
Submit ==
    LET next == Head(plan.sections)
        others == {enc.outs[i].stream : i \in {j \in DOMAIN enc.outs : enc.outs[j].ric > enc.known}}
        daring == plan.eager /\ Cardinality(others \cup {next.id}) <= Blocked
        Step(a, f) == EncodeField(a, f, IF daring THEN a.e.inserts ELSE enc.known)
        a == FoldLeft(Step, [e |-> enc, ins |-> <<>>, lines |-> <<>>, top |-> 0, low |-> 99],
                      next.fields)
    IN  /\ plan.sections # <<>>
        /\ enc' = Sent(a.e, next.id, a)
        /\ inserts' = inserts \o a.ins
        /\ stream' = [stream EXCEPT ![next.id].pipe =
                         IF stream[next.id].state = "dropped" THEN @
                         ELSE Append(@, Section(a, next.fields)),
                                    ![next.id].unheard = @ \/ stream[next.id].state = "dropped"]
        /\ plan' = [plan EXCEPT !.sections = Tail(@)]
        /\ UNCHANGED <<dec, acks, fault>>

(* The encoder's stream is read: its inserts, counted to the encoder       *)
(* (qpack_step).  Streams that waited for them are read again.             *)
ReadInserts(n) ==
    LET d == FoldLeft(DecFeed, dec, SubSeq(inserts, 1, n))
        more == d.inserts - d.known
    IN  /\ n <= Len(inserts) /\ Ready = {}
        /\ dec' = [d EXCEPT !.known = Max({@, d.inserts})]
        /\ acks' = IF more > 0 THEN Append(acks, [do |-> "count", n |-> more, id |-> 0]) ELSE acks
        /\ inserts' = SubSeq(inserts, n + 1, Len(inserts))
        /\ UNCHANGED <<enc, stream, fault, plan>>

(* A section is whole, or its inserts have come: it waits, or is decoded   *)
(* and acknowledged (st_qblock, h3_decode).                                *)
ReadSection(id) ==
    LET s == stream[id]
        section == Head(s.pipe)
        ric == Required(dec, section.ric)
        got == Decode(dec, section)
        whole == [i \in DOMAIN section.fields |-> <<section.fields[i].name, section.fields[i].value>>]
        wait == ric # Never /\ ric > dec.inserts
    IN  /\ id \in Ready \/ (Ready = {} /\ s.state \in {"idle", "begun"} /\ ~s.paused)
        /\ s.pipe # <<>>
        /\ \/ /\ wait
              /\ IF Cardinality(Waiting) >= Blocked
                 THEN fault' = "too many wait" /\ UNCHANGED stream
                 ELSE /\ stream' = [stream EXCEPT ![id].state = "waiting", ![id].ric = ric]
                      /\ UNCHANGED fault
              /\ UNCHANGED <<dec, acks>>
           \/ /\ ~wait
              /\ fault' = IF got.ok /\ got.fields = whole THEN fault ELSE "a section misread"
              /\ acks' = IF got.ok /\ ric > 0 THEN Append(acks, [do |-> "section", id |-> id]) ELSE acks
              /\ dec' = [dec EXCEPT !.known = Max({@, ric})]
              /\ stream' = [stream EXCEPT ![id].state = "idle", ![id].pipe = Tail(@)]
        /\ UNCHANGED <<enc, inserts, plan>>

(* Part of a section is there.                                             *)
BeginSection(id) ==
    /\ stream[id].state = "idle" /\ stream[id].pipe # <<>> /\ plan.drops > 0
    /\ stream' = [stream EXCEPT ![id].state = "begun"]
    /\ UNCHANGED <<enc, dec, inserts, acks, fault, plan>>

(* The stream is over, reset by either side, before all of it was read     *)
(* (st_free): the encoder is told of a section that was begun.             *)
Drop(id) ==
    LET s == stream[id]
    IN  /\ s.state # "dropped" /\ plan.drops > 0
        /\ acks' = IF s.state \in {"begun", "waiting"}
                   THEN Append(acks, [do |-> "cancel", id |-> id]) ELSE acks
        /\ stream' = [stream EXCEPT ![id] = [@ EXCEPT !.state = "dropped", !.pipe = <<>>,
                         !.unheard = s.state = "idle" /\ s.pipe # <<>>]]
        /\ plan' = [plan EXCEPT !.drops = @ - 1]
        /\ UNCHANGED <<enc, dec, inserts, fault>>

(* The program stops reading a stream, or reads on                         *)
(* (proven_h3_stream_pause); the decoder counts it among the waiting ones  *)
(* until it is read again.                                                 *)
Pause(id) ==
    /\ stream[id].state # "dropped" /\ plan.pauses > 0
    /\ stream' = [stream EXCEPT ![id].paused = ~@]
    /\ plan' = [plan EXCEPT !.pauses = @ - 1]
    /\ UNCHANGED <<enc, dec, inserts, acks, fault>>

(* The decoder's stream is read (proven_qpack_enc_feed).                   *)
ReadAck ==
    /\ acks # <<>>
    /\ enc' = EncFeed(enc, Head(acks)) /\ acks' = Tail(acks)
    /\ UNCHANGED <<dec, inserts, stream, fault, plan>>

NewTable(p) == [ents |-> p.held, inserts |-> p.start, known |-> p.start, fault |-> "none"]

Init ==
    /\ plan \in Plans
    /\ enc = NewTable(plan) @@ [outs |-> <<>>, capSent |-> plan.start > 0]
    /\ dec = NewTable(plan) @@ [cap |-> IF plan.start > 0 THEN Cap ELSE 0]
    /\ inserts = <<>> /\ acks = <<>> /\ fault = "none"
    /\ stream = [id \in Streams |-> [pipe |-> <<>>, state |-> "idle", ric |-> 0, paused |-> FALSE, unheard |-> FALSE]]

Next ==
    /\ fault = "none"
    /\ \/ Submit \/ ReadAck
       \/ \E n \in 1..2 : ReadInserts(n)
       \/ \E id \in Streams : ReadSection(id) \/ BeginSection(id) \/ Drop(id) \/ Pause(id)

Spec == Init /\ [][Next]_vars

-----------------------------------------------------------------------------
(* Every section is read as it was written, whatever was inserted, evicted *)
(* and acknowledged meanwhile and in which order the streams are read; and *)
(* neither end takes what the other says for an error (qpack.c) - unless a *)
(* stream that waited was paused: it counts among those that wait although *)
(* its inserts have come and been counted to the encoder (see the README). *)
SectionsAreRead ==
    /\ enc.fault = "none" /\ dec.fault = "none"
    /\ \/ fault = "none"
       \/ /\ fault = "too many wait"
          /\ \E id \in Waiting : stream[id].paused /\ stream[id].ric <= dec.inserts

(* Sections are read as written, and the two tables are one: with what is  *)
(* on its way each end would know what the other does.  A section waits    *)
(* only for inserts that are coming, and when all is read nothing holds an *)
(* entry in the table, except for streams that were dropped before a       *)
(* section of theirs began: of these the encoder is not told (see the      *)
(* README).                                                                *)
TablesAgree ==
    LET d == FoldLeft(DecFeed, dec, inserts)
        e == FoldLeft(EncFeed, enc, acks)
    IN  /\ SectionsAreRead
        /\ d.ents = enc.ents /\ d.inserts = enc.inserts
        /\ e.known = dec.known /\ dec.known = dec.inserts
        /\ \A id \in Waiting : stream[id].ric <= enc.inserts
        /\ (\A id \in Streams : stream[id].pipe = <<>>) =>
               \A i \in DOMAIN e.outs : stream[e.outs[i].stream].unheard
=============================================================================
