----------------------------- MODULE PsseImport -----------------------------
(***************************************************************************)
(* PSS/E RAW and RAWX files (importers.py from_raw, from_rawx).            *)
(*                                                                         *)
(* A RAW file is a sequence of lines [what, words, zero, f]: what is       *)
(* "label" (an @! line), "begin" or "end" (a v34 section marker), "bare"   *)
(* (a v32/33 terminator; words are those of the section it begins, none    *)
(* for a 0 or Q alone) or "record"; f are its fields, Absent when blank    *)
(* and Text when no number; zero says that the line's first token is the   *)
(* character 0.                                                            *)
(* Voltages and loads are thousandths of kV and MW, ratios and impedances  *)
(* thousandths of per unit.  Site positions are left out: nothing solves   *)
(* with them.                                                              *)
(***************************************************************************)
EXTENDS Assembly

DefaultBase == 100  \* MVA

Field(f, i) == IF i \in DOMAIN f /\ f[i] \in Int THEN f[i] ELSE 0
Magnitude(v) == IF v < 0 THEN -v ELSE v

\* The first of the names that a label contains.
FirstNamed(names, words) ==
    LET found == {i \in DOMAIN names : names[i] \in words}
    IN IF found = {} THEN "none" ELSE names[Min(found)]

\* Mutant: TRANSFORMER is looked for before NON-TRANSFORMER.
CanonTransformerFirst(words) ==
    FirstNamed(<<"substation", "transformer", "branch", "load", "bus">>, words)

\* NON-TRANSFORMER BRANCH (v34) is a section of lines.
Canon(words) ==
    IF "substation" \notin words /\ {"non", "transformer"} \subseteq words
    THEN "branch"
    ELSE FirstNamed(<<"substation", "transformer", "branch", "load", "bus">>, words)

Content(file) == Picked(file, {i \in DOMAIN file : file[i].what # "label"})
Marked(lines) == \E i \in DOMAIN lines : lines[i].what = "begin"

\* v34 to 36: explicit markers, or a 0 or Q alone.  v32/33: a line whose first
\* token is 0 ends the section and names the next one.
Turns(line, marked) ==
    IF marked THEN line.what \in {"begin", "end"} \/ (line.what = "bare" /\ line.words = {}) ELSE line.zero
SectionAfter(line, marked) == IF ~marked \/ line.what = "begin" THEN Canon(line.words) ELSE "none"

\* The records of one section, in file order: the lines after the header that
\* the last line to turn to a section turned to this one.
Section(lines, name) ==
    LET marked == Marked(lines)
        body == (IF marked THEN 2 ELSE 4)..Len(lines)
        turns == {i \in body : Turns(lines[i], marked)}
        before(i) == {j \in turns : j < i}
        current(i) == IF before(i) = {} THEN IF marked THEN "none" ELSE "bus"
                      ELSE SectionAfter(lines[Max(before(i))], marked)
    IN Picked([i \in DOMAIN lines |-> lines[i].f],
              {i \in body \ turns : current(i) = name})

\* A winding's voltage per unit of its bus: WINDV is per unit, in kV, or per
\* unit of NOMV, as CW says.  0 when it cannot be told.
WindvPu(windv, nomv, cw, kv) ==
    LET volts == IF cw = 3 /\ nomv # 0 THEN (windv * nomv) \div 1000 ELSE windv
    IN IF windv <= 0 THEN 0
       ELSE IF cw = 1 THEN windv
       ELSE IF kv > 0 THEN (volts * 1000) \div kv ELSE 0

Tap(w1, w2) == IF w1 > 0 /\ w2 > 0 THEN (w2 * 1000) \div w1 ELSE Absent
VectorGroup(shift) == IF shift = 0 THEN "wye_wye" ELSE "delta_wye"

KvOf(buses, b) == IF b \in Known(buses) THEN At(buses, b).kv ELSE 0
ParsedBus(number, kv, slack) ==
    [bus |-> number, kv |-> kv, slack |-> slack, load |-> 0, phases |-> {}]
Line(from, to, z, rate) ==
    [from |-> from, to |-> to, z |-> z, z0 |-> Absent, rate |-> rate,
     transformer |-> FALSE, tap |-> Absent, connection |-> Absent]
Transformer(from, to, z, rate, tap, group) ==
    [from |-> from, to |-> to, z |-> z, z0 |-> Absent, rate |-> rate,
     transformer |-> TRUE, tap |-> tap, connection |-> group]

RawBuses(records) ==
    LET f == Picked(records, {i \in DOMAIN records : Len(records[i]) >= 3 /\ records[i][1] \in Int})
    IN Tabled([k \in DOMAIN f |-> ParsedBus(f[k][1], IF f[k][2] = Absent THEN 1000 ELSE f[k][2], f[k][3] = 3)])

\* [bus, status, MW]: on, or without a status.
RawLoads(records) ==
    LET f == Picked(records, {i \in DOMAIN records : /\ Len(records[i]) >= 3 /\ records[i][1] \in Int
                                                     /\ records[i][2] \in {Absent, 1}})
    IN [k \in DOMAIN f |-> [bus |-> f[k][1], load |-> 1000 * Field(f[k], 3)]]

\* The first positive rating, which v34 shifts by a name.
Rating(f) ==
    LET positive == {i \in 4..6 : Field(f, i) > 0}
    IN IF positive = {} THEN 0 ELSE Field(f, Min(positive))

\* [from, to, z, then ratings].
RawBranches(records) ==
    LET f == Picked(records, {i \in DOMAIN records : /\ Len(records[i]) >= 3
                                                     /\ {records[i][1], records[i][2]} \subseteq Int})
    IN [k \in DOMAIN f |-> Line(Magnitude(f[k][1]), Magnitude(f[k][2]), Field(f[k], 3), Rating(f[k]))]

\* The two-winding record at line j: [from, to, K, CW], [z], [WINDV1, NOMV1,
\* ANG1, rate], [WINDV2, NOMV2].
RawTransformer(records, j, buses) ==
    LET head == records[j]
        from == Magnitude(head[1])
        to == Magnitude(head[2])
        cw == IF 4 \in DOMAIN head /\ head[4] # Absent THEN head[4] ELSE 1
        W(line, b) == WindvPu(Field(line, 1), Field(line, 2), cw, KvOf(buses, b))
    IN Transformer(from, to, Field(records[j + 1], 1), Field(records[j + 2], 4),
                   Tap(W(records[j + 2], from), W(records[j + 3], to)),
                   VectorGroup(Field(records[j + 2], 3)))

\* A record with a third bus K has five lines, and is skipped.
RawTransformers(records, buses) ==
    LET third(j) == j \in DOMAIN records /\ Field(records[j], 3) # 0
        Start[k \in Nat] == IF k = 0 THEN 1
                           ELSE LET j == Start[k - 1] IN j + (IF third(j) THEN 5 ELSE 4)
        whole == {j \in DOMAIN records : /\ \E k \in 0..Len(records) : Start[k] = j
                                         /\ ~third(j) /\ j + 3 <= Len(records)}
    IN [k \in 1..Cardinality(whole) |-> RawTransformer(records, Nth(whole, k), buses)]

FromRaw(file) ==
    LET lines == Content(file)
        buses == RawBuses(Section(lines, "bus"))
        branches == RawBranches(Section(lines, "branch"))
                    \o RawTransformers(Section(lines, "transformer"), buses)
    IN IF Len(lines) < 4 THEN ImportError
       ELSE Assemble(WithLoads(buses, RawLoads(Section(lines, "load"))), branches,
                     Or(Field(lines[1].f, 2), DefaultBase), FALSE)

\* RAWX: a table per section, each row a record of its columns.  `... or 1`
\* makes a load whose status is 0 one that is in service.
RowInService(row) == row.status = Absent \/ row.status \in {0, 1}

RawxBuses(doc) ==
    Tabled([i \in DOMAIN doc.bus |->
        LET row == doc.bus[i] IN
        ParsedBus(row.bus, IF row.kv \in {Absent, 0} THEN 1000 ELSE row.kv, row.ide = 3)])
RawxLoads(doc) ==
    LET rows == Picked(doc.load, {i \in DOMAIN doc.load : RowInService(doc.load[i])})
    IN [k \in DOMAIN rows |-> [bus |-> rows[k].bus, load |-> 1000 * rows[k].load]]
RawxLines(doc) ==
    [i \in DOMAIN doc.acline |->
        LET row == doc.acline[i] IN Line(Magnitude(row.from), Magnitude(row.to), row.z, row.rate)]
RawxTransformers(doc, buses) ==
    LET rows == Picked(doc.transformer, {i \in DOMAIN doc.transformer : doc.transformer[i].k = 0})
    IN [k \in DOMAIN rows |->
           LET row == rows[k]
               from == Magnitude(row.from)
               to == Magnitude(row.to)
           IN Transformer(from, to, row.z, row.rate,
                  Tap(WindvPu(row.windv1, row.nomv1, row.cw, KvOf(buses, from)),
                      WindvPu(row.windv2, row.nomv2, row.cw, KvOf(buses, to))),
                  VectorGroup(row.angle))]

FromRawx(doc) ==
    LET buses == RawxBuses(doc)
    IN Assemble(WithLoads(buses, RawxLoads(doc)), RawxLines(doc) \o RawxTransformers(doc, buses), doc.sbase, FALSE)
=============================================================================
