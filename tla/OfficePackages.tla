---------------------------- MODULE OfficePackages ----------------------------
(***************************************************************************)
(* The containers of office files: the bounded ZIP reader of sim-lib-doc-  *)
(* core (zip_package.rs), and what the OOXML and ODF packages require of   *)
(* one (package.rs of sim-codec-ooxml and sim-codec-odf).                  *)
(***************************************************************************)
EXTENDS Integers, Sequences, FiniteSets, FiniteSetsExt

CONSTANT MaxWord    \* the largest u64, scaled down

ASSUME MaxWordAssumption == MaxWord \in Nat

Saturated(n) == Min({n, MaxWord})

(***************************************************************************)
(* read_zip_entries, one entry per turn of its loop.  An entry says how    *)
(* many bytes it holds and how many it is compressed to; how many come out *)
(* of it (`actual`) is seen only by reading.  `kept` is the map of what    *)
(* has been read, by name: how many bytes.                                 *)
(***************************************************************************)
Extraction(status, next, total, buffer, kept) ==
    [status |-> status, next |-> next, total |-> total, buffer |-> buffer, kept |-> kept]
Beginning == Extraction("reading", 1, 0, 0, <<>>)
Failing(x, buffer) == Extraction("refused", x.next, x.total, buffer, x.kept)

\* The archive itself: how many entries it lists.
OpenArchive(archive, limits) ==
    IF Len(archive) > limits.entries THEN Failing(Beginning, 0) ELSE Beginning

\* What an entry declares is refused before any byte is read.
DeclaredTooLarge(entry, total, limits) ==
    \/ entry.declared > limits.entry
    \/ entry.declared # 0 /\ (entry.compressed = 0
                              \/ entry.declared > Saturated(entry.compressed * limits.ratio))
    \/ Saturated(total + entry.declared) > limits.total

\* Mutant of ReadLimit: exactly as many bytes as are allowed.
ReadLimitExact(total, limits) ==
    Min({limits.entry, Max({0, limits.total - total})})

\* One byte more than is allowed, so that too many can be told.
ReadLimit(total, limits) ==
    Min({Saturated(limits.entry + 1), Saturated(Max({0, limits.total - total}) + 1)})

ExtractEntry(x, archive, limits) ==
    LET entry == archive[x.next]
        read == Min({entry.actual, ReadLimit(x.total, limits)})
    IN IF entry.dir THEN Extraction("reading", x.next + 1, x.total, 0, x.kept)
       ELSE IF \/ DeclaredTooLarge(entry, x.total, limits)
               \/ read > limits.entry
               \/ x.total + read > Min({limits.total, MaxWord})
       THEN Failing(x, IF DeclaredTooLarge(entry, x.total, limits) THEN 0 ELSE read)
       ELSE Extraction("reading", x.next + 1, x.total + read, read,
                       [n \in DOMAIN x.kept \cup {entry.name} |->
                            IF n = entry.name THEN read ELSE x.kept[n]])

(***************************************************************************)
(* Packages.  A container is how it begins, its first entry and the names  *)
(* of its parts.  A name is its text, or its text and the number in it.    *)
(***************************************************************************)
Named(names) == {<<name>> : name \in names}
RelId(i) == <<"rId", i>>

Container(mimetype, parts) ==
    [ole |-> FALSE, first |-> mimetype # "none", mimetype |-> mimetype, parts |-> parts]

OoxmlParts == Named({"[Content_Types].xml", "_rels/.rels"})

\* OoxmlPackage::read: not a binary package, and the two parts that every
\* package has.  write_package keeps exactly the given entries.
OoxmlReadable(container) == ~container.ole /\ OoxmlParts \subseteq container.parts
WriteOoxml(parts) == Container("none", OoxmlParts \cup parts)

\* OdfPackage::read: the mimetype comes first and uncompressed; content and
\* manifest are there.
OdfReadable(container) ==
    /\ container.first
    /\ Named({"mimetype", "content.xml", "META-INF/manifest.xml"}) \subseteq container.parts
WriteOdf(mimetype) ==
    Container(mimetype, Named({"mimetype", "content.xml", "styles.xml", "META-INF/manifest.xml"}))
===============================================================================
