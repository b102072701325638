------------------------------ MODULE DssImport ------------------------------
(***************************************************************************)
(* The OpenDSS subset (importers.py from_dss): a file is a sequence of     *)
(* statements [element, ...].  A bus name is a record [text, number]; the  *)
(* number is the one it ends in, Absent without one.                       *)
(***************************************************************************)
EXTENDS Assembly

\* A trailing number is kept unless it is taken; the others count on from the
\* largest so far.
NumberFor(number, taken) ==
    IF number = Absent \/ number \in taken THEN Max(taken \union {0}) + 1 ELSE number

Numbers(names) == {names[i].id : i \in DOMAIN names}
Named(names, name) ==
    IF \E i \in DOMAIN names : names[i].name = name THEN names
    ELSE Append(names, [name |-> name, id |-> NumberFor(name.number, Numbers(names))])
IdOf(names, name) == names[CHOOSE i \in DOMAIN names : names[i].name = name].id

\* What has been read so far; loads are [bus, load], kvs [bus, kv].
DssStart == [names |-> <<>>, kv |-> Absent, source |-> Absent,
             loads |-> <<>>, kvs |-> <<>>, branches |-> <<>>]

Circuit(s, st) == [s EXCEPT !.names = Named(@, st.bus), !.kv = st.kv, !.source = st.bus]

DssBranch(s, from, to, z, rating, transformer) ==
    [id |-> Len(s.branches) + 1, from |-> from, to |-> to, z |-> z, z0 |-> Absent,
     rating |-> rating, transformer |-> transformer, oltc |-> FALSE,
     connection |-> Absent, tap |-> Absent]

\* A line without r1/x1 (a line code) is skipped, and so are its bus names.
\* The rating is on the circuit's voltage, whatever level the line is on.
DssLine(s, st) ==
    LET names == Named(Named(s.names, st.bus1), st.bus2)
        rating == IF st.amps = Absent \/ s.kv \in {Absent, 0} THEN Absent
                  ELSE (st.amps * s.kv) \div 1000
    IN IF st.z = Absent THEN s
       ELSE [s EXCEPT !.names = names,
                 !.branches = Append(@, DssBranch(s, IdOf(names, st.bus1), IdOf(names, st.bus2),
                                                  st.z * st.length, rating, FALSE))]

DssLoad(s, st) ==
    LET names == Named(s.names, st.bus)
    IN [s EXCEPT !.names = names, !.loads = Append(@, [bus |-> IdOf(names, st.bus), load |-> st.load])]

\* Two windings: [buses, kvs, z]; the percent impedance is taken on the first
\* winding's voltage and rating.
DssTransformer(s, st) ==
    LET names == Named(Named(s.names, st.buses[1]), st.buses[2])
        from == IdOf(names, st.buses[1])
        to == IdOf(names, st.buses[2])
    IN IF Len(st.buses) # 2 \/ Len(st.kvs) # 2 THEN s
       ELSE [s EXCEPT !.names = names,
                 !.kvs = @ \o <<[bus |-> from, kv |-> st.kvs[1]], [bus |-> to, kv |-> st.kvs[2]]>>,
                 !.branches = Append(@, DssBranch(s, from, to, Ohms(st.z, st.kvs[1], st.kva),
                                                  st.kva, TRUE))]

Read(s, st) ==
    CASE st.element = "circuit" -> Circuit(s, st)
      [] st.element = "line" -> DssLine(s, st)
      [] st.element = "load" -> DssLoad(s, st)
      [] st.element = "transformer" -> DssTransformer(s, st)
      [] OTHER -> s

\* The statements are read in order.
AllRead(file) ==
    LET after[k \in 0..Len(file)] == IF k = 0 THEN DssStart ELSE Read(after[k - 1], file[k])
    IN after[Len(file)]

\* The voltage a transformer gave the bus last, else the circuit's.
DssVolts(s, b) ==
    LET at == {i \in DOMAIN s.kvs : s.kvs[i].bus = b} IN IF at = {} THEN s.kv ELSE s.kvs[Max(at)].kv

FromDss(file) ==
    LET s == AllRead(file)
    IN IF s.kv = Absent \/ s.branches = <<>> THEN ImportError
       ELSE Imported([id |-> Absent, kv |-> s.kv, source |-> IdOf(s.names, s.source),
                buses |-> [i \in DOMAIN s.names |->
                    LET b == s.names[i].id IN
                    [bus |-> b, load |-> LoadAt(s.loads, b), phases |-> Absent,
                     kv |-> IF DssVolts(s, b) = s.kv THEN Absent ELSE DssVolts(s, b)]],
                branches |-> s.branches])
==============================================================================
