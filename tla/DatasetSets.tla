---------------------------- MODULE DatasetSets ----------------------------
(***************************************************************************)
(* What an internal dataset is compiled to and how it is looked up         *)
(* (local/ngx_http_waf_dataset.c, bottom half): networks become sorted     *)
(* arrays of starts and running covers that a binary search reads, strings *)
(* an open-addressed table.  The declaration itself (waf_local_dataset) is *)
(* parsed here too.                                                        *)
(*                                                                         *)
(* A network is a range [fam, start, end]; the text was parsed by nginx.   *)
(* fam is "v4", "v6", or "mapped" for IPv6 within ::ffff:0:0/96.           *)
(* An argument of the directive is <<option, value>> or <<"entry", e>>.    *)
(***************************************************************************)
EXTENDS Integers, Sequences, FiniteSets, SequencesExt

CONSTANTS
    Crc,            \* ngx_crc32_short on the strings that occur
    MaxDatasets,    \* NGX_HTTP_WAF_MAX_DATASETS
    PerEntry, Reserve, ZoneSize     \* the accounting of waf_shm_zone

None == ""
Error == [type |-> "error"]      \* in place of a dataset whose line is refused
Refused(wmcf) == \E i \in DOMAIN wmcf : wmcf[i].type = "error"

-----------------------------------------------------------------------------
(* The directive.                                                           *)

Options == {"active", "internal", "type", "hash", "limit", "ttl", "subject",
            "uuid", "max", "live_max"}

dataset_find(wmcf, name) == {i \in DOMAIN wmcf : wmcf[i].name = name}

add_entry(ds, e) ==
    IF \/ ds.type = "error"
       \/ (ds.type = "cidr") # (e.kind = "net")     \* ngx_ptocidr of no network
       \/ Len(ds.entries) >= ds.max
    THEN Error
    ELSE [ds EXCEPT !.entries = Append(@, e)]

\* One option of a first declaration; the last value given wins.
option(ds, arg) ==
    LET o == arg[1] IN
    IF \/ ds.type = "error" \/ o \notin {"active", "internal", "type", "hash", "limit", "ttl", "live_max"}
       \/ o \in {"active", "internal"} /\ ds.mode \notin {"unset", o}
       \/ o = "type" /\ arg[2] \notin {"cidr", "string"}
       \/ o = "hash" /\ arg[2] # "md5"
       \/ o \in {"limit", "ttl", "live_max"} /\ arg[2] <= 0
    THEN Error
    ELSE IF o \in {"active", "internal"} THEN [ds EXCEPT !.mode = o]
    ELSE IF o = "limit" THEN [ds EXCEPT !.max = arg[2]]
    ELSE [ds EXCEPT ![o] = arg[2]]

\* One waf_local_dataset line on the datasets declared so far.
local_dataset(wmcf, line) ==
    LET has == dataset_find(wmcf, line.name) IN
    IF Refused(wmcf) THEN wmcf
    ELSE IF has # {} THEN
        LET i == CHOOSE i \in has : TRUE
            ds == FoldLeft(LAMBDA d, a : add_entry(d, a[2]), wmcf[i], line.args)
        IN IF \/ \E k \in DOMAIN line.args : line.args[k][1] \in Options
              \/ wmcf[i].mode # "internal" \/ ds.type = "error"
           THEN <<Error>> ELSE [wmcf EXCEPT ![i] = ds]
    ELSE
        LET new == [name |-> line.name, type |-> "cidr", mode |-> "unset", max |-> 1000000,
                    live_max |-> 0, hash |-> "none", ttl |-> 0, entries |-> <<>>]
            ds == FoldLeft(option, new, line.args)
        IN IF \/ line.args[1][1] \notin Options \/ Len(wmcf) >= MaxDatasets
              \/ ds.type = "error" \/ ds.mode = "unset"
              \/ ds.hash # "none" /\ ds.type # "string"
              \/ ds.mode = "internal" /\ ds.ttl # 0
           THEN <<Error>>
           ELSE Append(wmcf, [ds EXCEPT !.live_max = IF @ = 0 THEN ds.max ELSE @])

Declared(lines) == FoldLeft(local_dataset, <<>>, lines)

shm_need(wmcf) ==
    FoldLeft(LAMBDA n, d : n + PerEntry *
                 (IF d.mode = "internal" THEN Len(d.entries)
                  ELSE IF d.max > d.live_max THEN d.max ELSE d.live_max), 0, wmcf)

shm_fit(wmcf) == Reserve + shm_need(wmcf) <= ZoneSize

-----------------------------------------------------------------------------
(* Networks.                                                                *)

\* entry_cidr: which of the two arrays a network goes to.
FamilyOf(e) == IF e.fam = "v6" THEN "v6" ELSE "v4"

\* cmp_r4, cmp_r6: by start, the wider of two with the same start first.
cmp_range(x, y) == x.start < y.start \/ (x.start = y.start /\ x.end > y.end)

sort_uniq(entries, fam) ==
    SetToSortSeq({[start |-> e.start, end |-> e.end] :
                     e \in {entries[i] : i \in {i \in DOMAIN entries : FamilyOf(entries[i]) = fam}}},
                 cmp_range)

\* Mutant: the cover of a position is the end of its own network.
build_cidr_own(r) == [start |-> [i \in DOMAIN r |-> r[i].start], cover |-> [i \in DOMAIN r |-> r[i].end]]

\* One family of a compiled set: the running maximum of the ends.
build_cidr(r) ==
    LET cover[i \in DOMAIN r] == IF i = 1 \/ r[i].end > cover[i - 1] THEN r[i].end ELSE cover[i - 1]
    IN [start |-> [i \in DOMAIN r |-> r[i].start], cover |-> cover]

lookup_cidr(set, a) ==
    LET n == Len(set.start)
        lo[l \in 0..n, h \in 0..n] ==   \* the loop: l and h as in the code
            IF l >= h THEN l
            ELSE LET mid == l + (h - l) \div 2
                 IN IF set.start[mid + 1] <= a THEN lo[mid + 1, h] ELSE lo[l, mid]
    IN n # 0 /\ lo[0, n] # 0 /\ set.cover[lo[0, n]] >= a

-----------------------------------------------------------------------------
(* Strings.                                                                 *)

\* The position where the string is, or the free one where the search ends.
str_probe(table, s) ==
    LET size == Cardinality(DOMAIN table)
        at[i \in DOMAIN table] == IF table[i] \in {None, s} THEN i ELSE at[(i + 1) % size]
    IN at[Crc[s] % size]

build_str(items) ==
    LET size == CHOOSE n \in {8 * 2^k : k \in 0..Len(items)} :
                    /\ n >= 2 * Len(items)
                    /\ n = 8 \/ n \div 2 < 2 * Len(items)
    IN FoldLeft(LAMBDA t, s : [t EXCEPT ![str_probe(t, s)] = s], [i \in 0..(size - 1) |-> None], items)

-----------------------------------------------------------------------------
(* Both.                                                                    *)

\* The family an address is looked up in: a mapped one is unwrapped.
ds_addr(q) == IF q.fam = "mapped" THEN "v4" ELSE q.fam

ds_build(ds) ==
    IF ds.type = "cidr"
    THEN [type |-> "cidr", v4 |-> build_cidr(sort_uniq(ds.entries, "v4")),
                           v6 |-> build_cidr(sort_uniq(ds.entries, "v6"))]
    ELSE [type |-> "string",
          table |-> build_str(SetToSeq({ds.entries[i].text : i \in DOMAIN ds.entries}))]

\* dataset_hit on a set already acquired: q is an address or a string (its md5
\* where the dataset says hash=md5).
dataset_hit(type, set, q) ==
    /\ set.type = type
    /\ IF type = "cidr"
       THEN lookup_cidr(IF ds_addr(q) = "v4" THEN set.v4 ELSE set.v6, q.addr)
       ELSE set.table[str_probe(set.table, q.text)] # None

\* What it should answer, from the lines of the configuration.
Listed(lines, name, type, q) ==
    \E k \in DOMAIN lines : lines[k].name = name /\ \E i \in DOMAIN lines[k].args :
        LET e == lines[k].args[i][2] IN
        /\ lines[k].args[i][1] = "entry"
        /\ IF type = "cidr" THEN (e.fam = "v6") = (q.fam = "v6") /\ q.addr \in e.start..e.end
                            ELSE e.text = q.text
=============================================================================
