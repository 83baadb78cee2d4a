------------------------- MODULE JobHistory_proofs --------------------------
(***************************************************************************)
(* Theorems about what survives the program (module JobHistory), for any   *)
(* torrents, names, threads, commands and crashes: what is read of the     *)
(* history is what was saved last, own jobs come back bit for bit, nothing *)
(* is claimed that is not on disk, and a start fails once.                 *)
(*                                                                         *)
(* They rest on what is read back of a history, a torrent and a bitmap     *)
(* (module Messages_proofs).                                               *)
(***************************************************************************)
EXTENDS Messages_proofs, JobHistory

-----------------------------------------------------------------------------
(* The history as it is written                                            *)

\* A file of an entry, an entry and a history, as SaveJobHistory builds them.
IsSavedFile(file) ==
  /\ file = [Fileid |-> file.Fileid, RelativePath |-> file.RelativePath,
             Filename |-> file.Filename, FileBit |-> file.FileBit,
             FileBitCount |-> file.FileBitCount]
  /\ IsSeq(file.FileBit)
IsEntry(entry) ==
  /\ entry = [TorrentPath |-> entry.TorrentPath, LocalTopPath |-> entry.LocalTopPath,
              File |-> entry.File, UploadTotal |-> entry.UploadTotal,
              DownloadTotal |-> entry.DownloadTotal]
  /\ IsSeq(entry.File)
  /\ \A i \in DOMAIN entry.File : IsSavedFile(entry.File[i])
IsHistory(entries) ==
  IsSeq(entries) /\ \A i \in DOMAIN entries : IsEntry(entries[i])

\* The file of an entry of the history comes back as it was saved.
LEMMA SavedFileFits ==
  ASSUME NEW file, IsSavedFile(file)
  PROVE  Fits(HistoryFileInfo, file) /\ LeafOK(HistoryFileInfo, file)
<1> DEFINE type == HistoryFileInfo
<1>1. /\ type.fields = HistoryFileInfoFields
      /\ type.required = {"Fileid", "RelativePath", "Filename", "FileBitCount"}
      /\ DOMAIN type.fields = {"Fileid", "RelativePath", "Filename", "FileBit", "FileBitCount"}
  BY DEF HistoryFileInfo, Message, HistoryFileInfoFields, HistoryFileInfoWire
<1>2. /\ \A f \in DOMAIN type.fields : IsRepeated(type, f) <=> f = "FileBit"
      /\ \A f \in DOMAIN type.fields : Element(type, f).kind # "message"
  <2>1. /\ \A f \in DOMAIN type.fields \ {"FileBit"} : type.fields[f] = Text \/ type.fields[f] = Number(0)
        /\ type.fields["FileBit"] = Repeated(Number(0))
    BY <1>1 DEF HistoryFileInfoFields
  <2> HIDE DEF type
  <2> QED BY <2>1, KindFacts DEF IsRepeated, Element
<1>3. DOMAIN file = DOMAIN type.fields /\ file = [f \in DOMAIN file |-> file[f]]
  BY <1>1 DEF IsSavedFile
<1>4. IsSeq(file["FileBit"])
  BY DEF IsSavedFile
<1> HIDE DEF type
<1>5. Fits(type, file)
  BY <1>1, <1>2, <1>3, <1>4 DEF Fits
<1>6. WellFormed(type)
  BY HistoryFileInfoWellFormed DEF type
<1>7. LeafOK(type, file)
  BY <1>2, <1>3, <1>5, <1>6, LeafRoundTrip
<1> QED BY <1>5, <1>7 DEF type

\* An entry of the history comes back as it was saved.
LEMMA EntryFits ==
  ASSUME NEW entry, IsEntry(entry)
  PROVE  /\ Fits(JobHistoryInfo, entry) /\ InnerOK(JobHistoryInfo, entry)
         /\ \A f \in DOMAIN entry : Element(JobHistoryInfo, f).kind = "message" =>
              \A i \in DOMAIN Values(JobHistoryInfo, entry, f) :
                LeafOK(Element(JobHistoryInfo, f).of, Values(JobHistoryInfo, entry, f)[i])
<1> DEFINE type == JobHistoryInfo
<1>1. /\ type.fields = JobHistoryInfoFields
      /\ type.required = {"TorrentPath", "LocalTopPath", "UploadTotal", "DownloadTotal"}
      /\ DOMAIN type.fields = {"TorrentPath", "LocalTopPath", "File", "UploadTotal", "DownloadTotal"}
  BY DEF JobHistoryInfo, Message, JobHistoryInfoFields, JobHistoryInfoWire
<1>2. /\ \A f \in DOMAIN type.fields : IsRepeated(type, f) <=> f = "File"
      /\ \A f \in DOMAIN type.fields : Element(type, f).kind = "message" =>
           f = "File" /\ Element(type, f).of = HistoryFileInfo
  <2>1. /\ \A f \in DOMAIN type.fields \ {"File"} : type.fields[f] = Text \/ type.fields[f] = Number(0)
        /\ type.fields["File"] = Repeated(Nested(HistoryFileInfo))
    BY <1>1 DEF JobHistoryInfoFields
  <2> HIDE DEF type
  <2> QED BY <2>1, KindFacts DEF IsRepeated, Element
<1>3. DOMAIN entry = DOMAIN type.fields /\ entry = [f \in DOMAIN entry |-> entry[f]]
  BY <1>1 DEF IsEntry
<1>4. IsSeq(entry["File"]) /\ \A i \in DOMAIN entry["File"] : IsSavedFile(entry["File"][i])
  BY DEF IsEntry
<1> HIDE DEF type
<1>5. Fits(type, entry)
  BY <1>1, <1>2, <1>3, <1>4 DEF Fits
<1>6. WellFormed(type)
  BY JobHistoryInfoWellFormed DEF type
<1>7. \A f \in DOMAIN entry : Element(type, f).kind = "message" =>
        \A i \in DOMAIN Values(type, entry, f) : LeafOK(Element(type, f).of, Values(type, entry, f)[i])
  <2> SUFFICES ASSUME NEW f \in DOMAIN entry, Element(type, f).kind = "message",
                      NEW i \in DOMAIN Values(type, entry, f)
               PROVE  LeafOK(Element(type, f).of, Values(type, entry, f)[i])
    OBVIOUS
  <2>1. f = "File" /\ Element(type, f).of = HistoryFileInfo
    BY <1>2, <1>3
  <2>2. Values(type, entry, f) = entry["File"]
    BY <1>1, <1>2, <1>3, <2>1 DEF Values
  <2> QED BY <1>4, <2>1, <2>2, SavedFileFits
<1>8. InnerOK(type, entry)
  BY <1>5, <1>6, <1>7, InnerRoundTrip
<1> QED BY <1>5, <1>7, <1>8 DEF type

\* A history comes back as it was saved.
LEMMA HistoryFits ==
  ASSUME NEW entries, IsHistory(entries)
  PROVE  /\ Fits(History, [JobInfo |-> entries]) /\ OuterOK(History, [JobInfo |-> entries])
         /\ \A f \in {"JobInfo"} :
              /\ IsRepeated(History, f) /\ Element(History, f) = Nested(JobHistoryInfo)
              /\ Values(History, [JobInfo |-> entries], f) = entries
<1> DEFINE type == History
           msg == [JobInfo |-> entries]
<1>1. /\ type.fields = HistoryFields
      /\ type.required = {}
      /\ DOMAIN type.fields = {"JobInfo"}
  BY DEF History, Message, HistoryFields, HistoryWire
<1>2. /\ IsRepeated(type, "JobInfo")
      /\ Element(type, "JobInfo") = Nested(JobHistoryInfo)
  BY <1>1 DEF HistoryFields, IsRepeated, Element, Repeated
<1>3. DOMAIN msg = {"JobInfo"} /\ msg = [f \in DOMAIN msg |-> msg[f]] /\ msg["JobInfo"] = entries
  OBVIOUS
<1>4. IsSeq(entries) /\ \A i \in DOMAIN entries : IsEntry(entries[i])
  BY DEF IsHistory
<1> HIDE DEF type, msg
<1>5. Fits(type, msg)
  BY <1>1, <1>2, <1>3, <1>4 DEF Fits
<1>6. WellFormed(type)
  BY HistoryWellFormed DEF type
<1>7. Values(type, msg, "JobInfo") = entries
  BY <1>1, <1>2, <1>3 DEF Values
<1>8. \A f \in DOMAIN msg : Element(type, f).kind = "message" =>
        \A i \in DOMAIN Values(type, msg, f) : InnerOK(Element(type, f).of, Values(type, msg, f)[i])
  <2> SUFFICES ASSUME NEW i \in DOMAIN entries
               PROVE  InnerOK(Element(type, "JobInfo").of, entries[i])
    BY <1>3, <1>7
  <2>1. Element(type, "JobInfo").of = JobHistoryInfo
    BY <1>2 DEF Nested
  <2> QED BY <1>4, <2>1, EntryFits
<1>9. OuterOK(type, msg)
  BY <1>5, <1>6, <1>8, OuterRoundTrip
<1> QED BY <1>2, <1>5, <1>7, <1>9 DEF type, msg
\* One sequence, joined, is that sequence.
LEMMA FlattenOne == ASSUME NEW S, NEW s \in Seq(S) PROVE FlattenSeq(One(s)) = s
<1>1. <<>> \in Seq(Seq(S)) /\ Append(<<>>, s) = One(s) /\ <<>> \o s = s
  BY DEF One
<1>2. FlattenSeq(Append(<<>>, s)) = FlattenSeq(<<>>) \o s
  BY <1>1, FlattenLaws
<1> QED BY <1>1, <1>2, FlattenEmpty

(* The first part of a sequence that begins with a.                        *)
LEMMA CutCons ==
  ASSUME NEW S, NEW a \in S, NEW s \in Seq(S), NEW m \in 0 .. Len(s)
  PROVE  SubSeq(Cons(a, s), 1, m + 1) = Cons(a, SubSeq(s, 1, m))
<1> DEFINE c == Cons(a, s)
           t == SubSeq(s, 1, m)
           d == Cons(a, t)
           e == SubSeq(c, 1, m + 1)
<1>1. c \in Seq(S) /\ Len(c) = Len(s) + 1 /\ c[1] = a /\ \A i \in 1 .. Len(s) : c[i + 1] = s[i]
  <2>1. c \in Seq(S) /\ Len(c) = Len(s) + 1 /\ c[1] = a
    BY Prepend
  <2>2. \A i \in 1 .. Len(s) : c[i + 1] = s[i]
    BY Prepend
  <2> HIDE DEF c
  <2> QED BY <2>1, <2>2
<1>2. t \in Seq(S) /\ Len(t) = m /\ \A i \in 1 .. m : t[i] = s[i]
  OBVIOUS
<1> HIDE DEF c, t
<1>3. d \in Seq(S) /\ Len(d) = m + 1 /\ d[1] = a /\ \A i \in 1 .. m : d[i + 1] = t[i]
  <2>0. t \in Seq(S)
    BY <1>2
  <2>1. d \in Seq(S) /\ Len(d) = Len(t) + 1 /\ d[1] = a
    BY <2>0, Prepend
  <2>2. \A i \in 1 .. Len(t) : d[i + 1] = t[i]
    BY <2>0, Prepend
  <2> HIDE DEF d
  <2> QED BY <1>2, <2>1, <2>2
<1>4. e \in Seq(S) /\ Len(e) = m + 1 /\ \A i \in 1 .. m + 1 : e[i] = c[i]
  BY <1>1
<1> HIDE DEF d, e
<1>5. ASSUME NEW i \in 1 .. m + 1 PROVE e[i] = d[i]
  <2>1. CASE i = 1
    BY <1>1, <1>3, <1>4, <2>1
  <2>2. CASE i # 1
    <3>1. PICK k \in 1 .. m : i = k + 1
      BY <2>2
    <3>2. k \in 1 .. Len(s)
      OBVIOUS
    <3>3. e[i] = s[k] /\ d[i] = t[k] /\ t[k] = s[k]
      BY <1>1, <1>2, <1>3, <1>4, <3>1, <3>2
    <3> QED BY <3>3
  <2> QED BY <2>1, <2>2
<1>6. e = d
  BY <1>3, <1>4, <1>5, SeqEqual
<1> QED BY <1>6 DEF c, d, e, t

(* What is left of a nested message when its field is cut.                 *)
LEMMA PartOfNested ==
  ASSUME NEW S, NEW a \in S, NEW b \in S, NEW s \in Seq(S), NEW m \in 0 .. Len(s)
  PROVE  Nest(One(Tail(SubSeq(Cons(a, Cons(b, s)), 1, m + 2)))) = SubSeq(s, 1, m)
<1> DEFINE c == Cons(b, s)
           t == SubSeq(s, 1, m)
           d == Cons(b, t)
<1>1. c \in Seq(S) /\ Len(c) = Len(s) + 1
  BY Prepend
<1>2. t \in Seq(S)
  OBVIOUS
<1>3. SubSeq(c, 1, m + 1) = d
  BY CutCons
<1> HIDE DEF c, t
<1>4. d \in Seq(S) /\ Tail(d) = t
  BY <1>2, Prepend
<1> HIDE DEF d
<1>5. SubSeq(Cons(a, c), 1, (m + 1) + 1) = Cons(a, SubSeq(c, 1, m + 1))
  <2>1. m + 1 \in 0 .. Len(c)
    BY <1>1
  <2> QED BY <1>1, <2>1, CutCons
<1>6. (m + 1) + 1 = m + 2
  OBVIOUS
<1>7. Tail(SubSeq(Cons(a, c), 1, m + 2)) = d
  <2>1. Tail(Cons(a, d)) = d
    BY <1>4, Prepend
  <2> QED BY <1>3, <1>5, <1>6, <2>1
<1>8. Nest(One(d)) = t
  <2>1. [i \in DOMAIN One(d) |-> Tail(One(d)[i])] = One(Tail(d))
    BY DEF One
  <2>2. FlattenSeq(One(t)) = t
    BY <1>2, FlattenOne
  <2> QED BY <1>4, <2>1, <2>2 DEF Nest
<1> QED BY <1>7, <1>8 DEF c, t

---------------------------------------------------------------------------
\* How an entry is written: its tag, its length and its fields.
EntryTag == Tag(1, Nested(JobHistoryInfo))
EntryStream(entry) == EncodeInner(JobHistoryInfo, entry)
EntryField(entry) ==
  Cons(EntryTag, Cons(Token("length", Len(EntryStream(entry))), EntryStream(entry)))
EntryFields(entries) == [i \in DOMAIN entries |-> EntryField(entries[i])]
HistoryStream(entries) == Encode(History, [JobInfo |-> entries])

\* A history is written entry by entry.
LEMMA HistoryLayout ==
  ASSUME NEW entries, IsHistory(entries)
  PROVE  \E T : /\ EntryFields(entries) \in Seq(Closed(T))
                /\ HistoryStream(entries) = FlattenSeq(EntryFields(entries))
<1> DEFINE msg == [JobInfo |-> entries]
           K == Nested(JobHistoryInfo)
           fs == EntryFields(entries)
<1>1. /\ Fits(History, msg) /\ IsRepeated(History, "JobInfo") /\ Element(History, "JobInfo") = K
      /\ Values(History, msg, "JobInfo") = entries
  BY HistoryFits
<1>2. K.kind = "message" /\ K.of = JobHistoryInfo
  BY KindFacts
<1>3. IsSeq(entries) /\ \A i \in DOMAIN entries : IsSeq(EntryStream(entries[i]))
  BY EntryFits DEF IsHistory, InnerOK, EntryStream
<1>4. History.order = <<"JobInfo">>
  BY DEF History, Message, HistoryWire
<1>5. DOMAIN msg = {"JobInfo"}
  OBVIOUS
<1> HIDE DEF msg, K
<1>6. \A f \in DOMAIN msg : Element(History, f).kind = "message" =>
        \A i \in DOMAIN Values(History, msg, f) : InnerOK(Element(History, f).of, Values(History, msg, f)[i])
  BY <1>1, <1>2, <1>5, EntryFits DEF IsHistory
<1>7. PICK w :
        /\ Encode(History, msg) = StreamOf(History, msg, w)
        /\ Streams(History, msg, w)
        /\ \A n \in DOMAIN History.order : IsNested(History, n) =>
             \A i \in DOMAIN ValuesOf(History, msg, n) :
               w[n][i] = EncodeInner(KindOf(History, n).of, ValuesOf(History, msg, n)[i])
  BY <1>1, <1>6, HistoryWellFormed, OuterWritten
<1>8. /\ DOMAIN History.order = {1} /\ KindOf(History, 1) = K /\ IsNested(History, 1)
      /\ ValuesOf(History, msg, 1) = entries
  BY <1>1, <1>2, <1>4 DEF KindOf, IsNested, ValuesOf
<1>9. GroupOf(History, msg, w, 1) = fs
  <2>1. \A i \in DOMAIN entries : w[1][i] = EntryStream(entries[i])
    BY <1>2, <1>7, <1>8 DEF EntryStream
  <2> QED BY <1>8, <2>1 DEF GroupOf, Content, EntryFields, EntryField, EntryTag, K
<1>10. GroupsOf(History, msg, w) = One(fs)
  BY <1>4, <1>8, <1>9 DEF GroupsOf, One
<1>11. PICK T : One(fs) \in Seq(Seq(Closed(T)))
  <2>1. Grouped(History, msg, One(fs))
    BY <1>7, <1>10, HistoryWellFormed, GroupsAreGrouped
  <2> HIDE DEF fs
  <2> QED BY <1>1, <2>1, HistoryWellFormed, OneSet
<1> HIDE DEF fs
<1>12. fs \in Seq(Closed(T))
  <2>1. One(fs)[1] = fs /\ 1 \in DOMAIN One(fs)
    BY DEF One
  <2> QED BY <1>11, <2>1
<1>13. FlattenSeq(One(fs)) = fs
  BY <1>12, FlattenOne
<1> QED BY <1>7, <1>10, <1>12, <1>13 DEF HistoryStream, StreamOf, fs, msg
(* Of an entry that is cut, nothing can be read.                           *)
LEMMA EntryCut ==
  ASSUME NEW entry, IsEntry(entry), NEW n \in 0 .. Len(EntryStream(entry)) - 1
  PROVE  ~InnerRead(JobHistoryInfo, SubSeq(EntryStream(entry), 1, n))
<1> DEFINE type == JobHistoryInfo
<1>1. /\ Len(type.order) = 5 /\ type.order[5] = "DownloadTotal"
      /\ "DownloadTotal" \in type.required /\ type.fields["DownloadTotal"] = Number(0)
  BY DEF JobHistoryInfo, Message, JobHistoryInfoFields, JobHistoryInfoWire
<1>2. ~IsRepeated(type, "DownloadTotal") /\ Element(type, "DownloadTotal").kind # "message"
  <2> HIDE DEF type
  <2> QED BY <1>1, KindFacts DEF IsRepeated, Element
<1>3. "DownloadTotal" \in DOMAIN entry
  BY DEF IsEntry
<1>4. Fits(type, entry) /\ WellFormed(type)
  BY EntryFits, JobHistoryInfoWellFormed
<1>5. \A f \in DOMAIN entry : Element(type, f).kind = "message" =>
        \A i \in DOMAIN Values(type, entry, f) : LeafOK(Element(type, f).of, Values(type, entry, f)[i])
  BY EntryFits
<1> HIDE DEF type
<1> DEFINE N == 5
           cut == SubSeq(EncodeInner(type, entry), 1, n)
<1>6. ~IsNested(type, N)
  BY <1>1, <1>2 DEF IsNested, KindOf
<1>7. N # 0 /\ N = Len(type.order) /\ type.order[N] \in DOMAIN entry /\ ~IsRepeated(type, type.order[N])
  BY <1>1, <1>2, <1>3
<1>8. n \in 0 .. Len(EncodeInner(type, entry)) - 1
  BY DEF EntryStream, type
<1> HIDE DEF N
<1>9. InnerRead(type, cut) => type.order[N] \notin type.required
  BY <1>4, <1>5, <1>6, <1>7, <1>8, InnerCut
<1> QED BY <1>1, <1>9 DEF EntryStream, type, N

\* The first entries of a history are a history, written as its first fields.
LEMMA PartOfEntries ==
  ASSUME NEW entries, IsHistory(entries), NEW j \in 0 .. Len(entries)
  PROVE  /\ IsHistory(SubSeq(entries, 1, j))
         /\ EntryFields(SubSeq(entries, 1, j)) = SubSeq(EntryFields(entries), 1, j)
         /\ Len(EntryFields(entries)) = Len(entries)
<1> DEFINE n == Len(entries)
           part == SubSeq(entries, 1, j)
           fs == EntryFields(entries)
           F == {EntryField(entries[i]) : i \in 1 .. n}
<1>1. IsSeq(entries) /\ \A i \in DOMAIN entries : IsEntry(entries[i])
  BY DEF IsHistory
<1>2. PICK T : entries \in Seq(T)
  BY <1>1 DEF IsSeq
<1>3. /\ part \in Seq(T) /\ Len(part) = j /\ n \in Nat /\ DOMAIN part = 1 .. j /\ DOMAIN entries = 1 .. n
      /\ \A i \in 1 .. j : part[i] = entries[i]
  BY <1>2
<1> HIDE DEF part, n
<1>4. j \in 0 .. n
  BY DEF n
<1>5. IsHistory(part)
  <2>1. \A i \in DOMAIN part : i \in DOMAIN entries /\ part[i] = entries[i]
    BY <1>3, <1>4
  <2> QED BY <1>1, <1>3, <2>1 DEF IsHistory, IsSeq
<1>6. fs = [i \in 1 .. n |-> EntryField(entries[i])] /\ fs \in [1 .. n -> F]
  BY <1>3 DEF EntryFields
<1> HIDE DEF fs, F
<1>7. fs \in Seq(F) /\ Len(fs) = n
  BY <1>3, <1>6, FunctionIsSeq
<1>8. EntryFields(part) = SubSeq(fs, 1, j)
  <2>1. EntryFields(part) = [i \in 1 .. j |-> EntryField(entries[i])]
    BY <1>3 DEF EntryFields
  <2>2. SubSeq(fs, 1, j) = [i \in 1 .. j |-> fs[i]]
    BY <1>4, <1>7
  <2>3. \A i \in 1 .. j : fs[i] = EntryField(entries[i])
    BY <1>3, <1>4, <1>6
  <2> QED BY <2>1, <2>2, <2>3
<1> QED BY <1>5, <1>7, <1>8 DEF part, n, fs

\* Of a history that is cut, the first entries are read, whole, and nothing else.
LEMMA HistoryCut ==
  ASSUME NEW entries, IsHistory(entries), NEW n \in 0 .. Len(HistoryStream(entries)),
         IsRead(History, SubSeq(HistoryStream(entries), 1, n))
  PROVE  \E j \in 0 .. Len(entries) :
           Decode(History, SubSeq(HistoryStream(entries), 1, n)) = [JobInfo |-> SubSeq(entries, 1, j)]
<1> DEFINE fs == EntryFields(entries)
           cut == SubSeq(HistoryStream(entries), 1, n)
           split == Split(cut)
<1>1. PICK T : fs \in Seq(Closed(T)) /\ HistoryStream(entries) = FlattenSeq(fs)
  BY HistoryLayout
<1>2. Len(fs) = Len(entries) /\ Len(entries) \in Nat
  <2>1. Len(entries) \in Nat
    BY SeqFacts DEF IsHistory
  <2>2. 0 \in 0 .. Len(entries)
    BY <2>1
  <2> QED BY <2>1, <2>2, PartOfEntries
<1> HIDE DEF fs
<1>3. PICK j \in 0 .. Len(fs) : CutAfter(fs, split, j)
  BY <1>1, FlattenCut
<1> HIDE DEF cut
<1>4. CASE split = SubSeq(fs, 1, j)
  <2> DEFINE part == SubSeq(entries, 1, j)
  <2>1. IsHistory(part) /\ EntryFields(part) = SubSeq(fs, 1, j)
    BY <1>2, PartOfEntries DEF fs
  <2> HIDE DEF part
  <2>2. PICK U : EntryFields(part) \in Seq(Closed(U)) /\ HistoryStream(part) = FlattenSeq(EntryFields(part))
    BY <2>1, HistoryLayout
  <2>3. Split(HistoryStream(part)) = split
    BY <1>4, <2>1, <2>2, SplitFlatten
  <2>4. Decode(History, HistoryStream(part)) = [JobInfo |-> part]
    BY <2>1, HistoryFits DEF OuterOK, HistoryStream
  <2>5. Decode(History, cut) = [JobInfo |-> part]
    BY <2>3, <2>4 DEF Decode, DecodeAll
  <2> QED BY <1>2, <2>5 DEF cut, part
<1>5. CASE split # SubSeq(fs, 1, j)
  <2>1. PICK m \in 1 .. Len(fs[j + 1]) - 1 :
          j < Len(fs) /\ split = Append(SubSeq(fs, 1, j), SubSeq(fs[j + 1], 1, m))
    BY <1>3, <1>5 DEF CutAfter
  <2> DEFINE q == fs[j + 1]
             p == SubSeq(q, 1, m)
             a == SubSeq(fs, 1, j)
             entry == entries[j + 1]
             s == EntryStream(entry)
  <2>2. j + 1 \in 1 .. Len(fs) /\ j + 1 \in DOMAIN entries /\ IsEntry(entry)
    <3>1. j + 1 \in 1 .. Len(fs)
      BY <2>1
    <3>2. DOMAIN entries = 1 .. Len(entries)
      BY SeqFacts DEF IsHistory
    <3> QED BY <1>2, <3>1, <3>2 DEF IsHistory
  <2>3. q = EntryField(entry) /\ q \in Closed(T)
    BY <1>1, <2>2 DEF fs, EntryFields
  <2>4. IsSeq(s)
    BY <2>2, EntryFits DEF InnerOK, EntryStream
  <2>5. PICK S : /\ EntryTag \in S /\ Token("length", Len(s)) \in S /\ s \in Seq(S)
    <3>1. PICK R : s \in Seq(R)
      BY <2>4 DEF IsSeq
    <3> DEFINE S == R \cup {EntryTag, Token("length", Len(s))}
    <3> HIDE DEF s
    <3>2. R \subseteq S /\ EntryTag \in S /\ Token("length", Len(s)) \in S
      OBVIOUS
    <3> HIDE DEF S
    <3>3. s \in Seq(S)
      BY <3>1, <3>2, SeqMonotonic
    <3> QED BY <3>2, <3>3
  <2> DEFINE l == Token("length", Len(s))
             c == Cons(l, s)
  <2> HIDE DEF s, l
  <2>6. c \in Seq(S) /\ Len(c) = Len(s) + 1 /\ Len(s) \in Nat
    BY <2>5, Prepend DEF l
  <2>7. q = Cons(EntryTag, c) /\ Len(q) = Len(s) + 2 /\ q[1] = EntryTag
    <3>1. q = Cons(EntryTag, c)
      BY <2>3 DEF EntryField, l, s
    <3> HIDE DEF q, c
    <3>2. Len(Cons(EntryTag, c)) = Len(c) + 1 /\ Cons(EntryTag, c)[1] = EntryTag
      BY <2>5, <2>6, Prepend
    <3> QED BY <2>6, <3>1, <3>2
  <2>8. p \in Fields(T) /\ p[1] = EntryTag /\ Len(p) = m /\ m \in 1 .. Len(s) + 1
    <3>1. q \in Seq(T)
      BY <2>3 DEF Closed
    <3> HIDE DEF q, c
    <3>2. m \in 1 .. Len(q) - 1 /\ m \in 1 .. Len(s) + 1
      BY <2>1, <2>6, <2>7 DEF q
    <3>3. SubSeq(q, 1, m) \in Seq(T) /\ Len(SubSeq(q, 1, m)) = m /\ SubSeq(q, 1, m)[1] = q[1]
      BY <3>1, <3>2
    <3> QED BY <2>7, <3>2, <3>3 DEF Fields
  <2>9. a \in Seq(Fields(T)) /\ split = Append(a, p)
    <3>1. fs \in Seq(Fields(T))
      BY <1>1, ClosedStream
    <3> HIDE DEF Fields
    <3>2. a \in Seq(Fields(T))
      BY <3>1, <2>1
    <3> QED BY <2>1, <3>2
  <2> HIDE DEF a, p, q, c, entry
  <2>10. m # 1
    <3>1. Len(a) + 1 \in DOMAIN split /\ split[Len(a) + 1] = p
      BY <2>8, <2>9, AppendProperties
    <3>2. FieldReads(History, p)
      BY <3>1 DEF IsRead, AllRead, cut, split
    <3> QED BY <2>8, <3>2 DEF FieldReads, IsWhole
  <2>11. Tagged(split, EntryTag) = Append(Tagged(a, EntryTag), Tail(p)) /\ Tagged(a, EntryTag) \in Seq(Seq(T))
    <3>1. a \in Seq(Fields(T)) /\ p \in Fields(T) /\ p[1] = EntryTag
      BY <2>8, <2>9
    <3>2. Tagged(a, EntryTag) \in Seq(Seq(T))
      BY <3>1, TaggedIn
    <3>3. Tagged(Append(a, p), EntryTag) = Append(Tagged(a, EntryTag), Tail(p))
      BY <3>1, TaggedLaws
    <3> QED BY <2>9, <3>2, <3>3
  <2> DEFINE x == Tagged(a, EntryTag)
             pieces == Pieces(History, split, 1)
             k == Len(x) + 1
  <2>12. k \in DOMAIN pieces /\ pieces[k] = One(Tail(p))
    <3>1. Tail(p) \in Seq(T)
      BY <2>8, TailIn
    <3> HIDE DEF x
    <3>2. k \in DOMAIN Append(x, Tail(p)) /\ Append(x, Tail(p))[k] = Tail(p)
      BY <2>11, <3>1, AppendProperties DEF x
    <3>3. History.order = <<"JobInfo">>
      BY DEF History, Message, HistoryWire
    <3>4. IsRepeated(History, "JobInfo") /\ Element(History, "JobInfo") = Nested(JobHistoryInfo)
      BY HistoryFits
    <3>5. pieces = [i \in DOMAIN Append(x, Tail(p)) |-> One(Append(x, Tail(p))[i])]
      <4>1. History.order[1] = "JobInfo"
        BY <3>3
      <4>2. Tagged(split, Tag(1, Element(History, "JobInfo"))) = Append(x, Tail(p))
        BY <2>11, <3>4 DEF EntryTag, x
      <4> DEFINE y == Append(x, Tail(p))
      <4> HIDE DEF y, split
      <4>3. pieces = [i \in DOMAIN y |-> <<y[i]>>]
        BY <3>4, <4>1, <4>2 DEF Pieces, y
      <4> QED BY <4>3 DEF y, One
    <3> HIDE DEF pieces, k
    <3> QED BY <3>2, <3>5
  <2>13. InnerRead(JobHistoryInfo, Nest(One(Tail(p))))
    <3>3. History.order = <<"JobInfo">>
      BY DEF History, Message, HistoryWire
    <3>4. Element(History, "JobInfo") = Nested(JobHistoryInfo)
      BY HistoryFits
    <3>5. 1 \in DOMAIN History.order /\ Element(History, History.order[1]).kind = "message"
          /\ Element(History, History.order[1]).of = JobHistoryInfo
      BY <3>3, <3>4, KindFacts
    <3> QED BY <2>12, <3>5 DEF IsRead, AllRead, cut, split
  <2>14. Nest(One(Tail(p))) = SubSeq(s, 1, m - 2) /\ m - 2 \in 0 .. Len(s) - 1
    <3>1. PICK i \in 0 .. Len(s) - 1 : m = i + 2
      <4>1. m - 2 \in 0 .. Len(s) - 1 /\ m = (m - 2) + 2
        BY <2>6, <2>8, <2>10
      <4> QED BY <4>1
    <3>2. i \in 0 .. Len(s) /\ m - 2 = i
      BY <2>6, <3>1
    <3>3. Nest(One(Tail(SubSeq(Cons(EntryTag, c), 1, i + 2)))) = SubSeq(s, 1, i)
      BY <2>5, <3>2, PartOfNested DEF c, l
    <3> QED BY <2>7, <3>1, <3>2, <3>3 DEF p
  <2> DEFINE r == m - 2
  <2> HIDE DEF r
  <2>15. r \in 0 .. Len(EntryStream(entry)) - 1 /\ InnerRead(JobHistoryInfo, SubSeq(EntryStream(entry), 1, r))
    BY <2>13, <2>14 DEF s, r
  <2> QED BY <2>2, <2>15, EntryCut DEF entry
<1> QED BY <1>4, <1>5
-----------------------------------------------------------------------------
(* Torrents                                                                *)

(* How many chunks a file has.                                             *)
ChunksOf(fileid) == (CHOOSE file \in AllFiles : file.CheckSum = fileid).chunks

\* The files of a torrent; a checksum stands for one number of chunks.
LEMMA FileFacts ==
  ASSUME NEW id \in TorrentIds
  PROVE  /\ IsSeq(TorrentFiles[id])
         /\ \A i \in DOMAIN TorrentFiles[id] :
              LET file == TorrentFiles[id][i]
              IN  /\ file.CheckSum \in FileIds /\ file.chunks \in Nat
                  /\ ChunksOf(file.CheckSum) = file.chunks
<1> DEFINE s == TorrentFiles[id]
<1>1. s \in Seq([CheckSum : STRING, Filename : STRING, chunks : Nat])
  BY JobHistoryAssumption
<1>2. ASSUME NEW i \in DOMAIN s
      PROVE  s[i].CheckSum \in FileIds /\ s[i].chunks \in Nat /\ ChunksOf(s[i].CheckSum) = s[i].chunks
  <2>1. s[i] \in [CheckSum : STRING, Filename : STRING, chunks : Nat]
    <3> DEFINE R == [CheckSum : STRING, Filename : STRING, chunks : Nat]
    <3> HIDE DEF s, R
    <3>1. s \in Seq(R) /\ i \in DOMAIN s
      BY <1>1 DEF R
    <3>2. s[i] \in R
      BY <3>1
    <3> QED BY <3>2 DEF R
  <2>2. s[i] \in AllFiles
    BY DEF AllFiles, FilesOf, ToSet
  <2> DEFINE file == s[i]
             other == CHOOSE g \in AllFiles : g.CheckSum = file.CheckSum
  <2> HIDE DEF s
  <2>3. other \in AllFiles /\ other.CheckSum = file.CheckSum
    BY <2>2
  <2> HIDE DEF other
  <2>4. other.chunks = file.chunks
    BY <2>2, <2>3, JobHistoryAssumption
  <2> QED BY <2>1, <2>2, <2>4 DEF ChunksOf, FileIds, other
<1> QED BY <1>1, <1>2 DEF IsSeq

---------------------------------------------------------------------------
\* The chunk of a torrent comes back as it was written.
LEMMA ChunkMsgFits == LeafOK(Chunk, ChunkMsg)
<1> DEFINE type == Chunk
<1>1. /\ type.fields = ChunkFields
      /\ type.required = {"CheckSum", "Size"}
      /\ DOMAIN type.fields = {"CheckSum", "Size"}
      /\ type.fields["CheckSum"] = Text /\ type.fields["Size"] = Number(0)
  BY DEF Chunk, Message, ChunkFields, ChunkWire
<1>2. DOMAIN ChunkMsg = {"CheckSum", "Size"} /\ ChunkMsg = [f \in DOMAIN ChunkMsg |-> ChunkMsg[f]]
  BY DEF ChunkMsg
<1> HIDE DEF type
<1>3. \A f \in DOMAIN type.fields : ~IsRepeated(type, f) /\ Element(type, f).kind # "message"
  BY <1>1, KindFacts DEF IsRepeated, Element
<1>4. Fits(type, ChunkMsg)
  BY <1>1, <1>2, <1>3 DEF Fits
<1>5. WellFormed(type)
  BY ChunkWellFormed DEF type
<1>6. LeafOK(type, ChunkMsg)
  BY <1>1, <1>2, <1>3, <1>4, <1>5, LeafRoundTrip
<1> QED BY <1>6 DEF type

\* The file of a torrent comes back as it was written.
LEMMA FileMsgFits ==
  ASSUME NEW file, file.chunks \in Nat
  PROVE  InnerOK(File, FileMsg(file))
<1> DEFINE type == File
           msg == FileMsg(file)
<1>1. /\ type.fields = FileFields
      /\ type.required = {"CheckSum", "RelativePath", "Filename", "Size"}
      /\ DOMAIN type.fields = {"CheckSum", "RelativePath", "Filename", "Size", "Chunk"}
  BY DEF File, Message, FileFields, FileWire
<1>2. /\ \A f \in DOMAIN type.fields : IsRepeated(type, f) <=> f = "Chunk"
      /\ \A f \in DOMAIN type.fields : Element(type, f).kind = "message" =>
           f = "Chunk" /\ Element(type, f).of = Chunk
  <2>1. /\ \A f \in DOMAIN type.fields \ {"Chunk"} : type.fields[f] = Text \/ type.fields[f] = Number(0)
        /\ type.fields["Chunk"] = Repeated(Nested(Chunk))
    BY <1>1 DEF FileFields
  <2> HIDE DEF type
  <2> QED BY <2>1, KindFacts DEF IsRepeated, Element
<1>3. DOMAIN msg = DOMAIN type.fields /\ msg = [f \in DOMAIN msg |-> msg[f]]
  BY <1>1 DEF FileMsg
<1>4. msg["Chunk"] = [c \in 1 .. file.chunks |-> ChunkMsg]
  BY DEF FileMsg
<1>5. IsSeq(msg["Chunk"]) /\ \A i \in DOMAIN msg["Chunk"] : msg["Chunk"][i] = ChunkMsg
  <2>1. msg["Chunk"] \in Seq({ChunkMsg})
    BY <1>4
  <2> QED BY <1>4, <2>1 DEF IsSeq
<1> HIDE DEF type, msg
<1>6. Fits(type, msg)
  BY <1>1, <1>2, <1>3, <1>5 DEF Fits
<1>7. WellFormed(type)
  BY FileWellFormed DEF type
<1>8. \A f \in DOMAIN msg : Element(type, f).kind = "message" =>
        \A i \in DOMAIN Values(type, msg, f) : LeafOK(Element(type, f).of, Values(type, msg, f)[i])
  <2> SUFFICES ASSUME NEW f \in DOMAIN msg, Element(type, f).kind = "message",
                      NEW i \in DOMAIN Values(type, msg, f)
               PROVE  LeafOK(Element(type, f).of, Values(type, msg, f)[i])
    OBVIOUS
  <2>1. f = "Chunk" /\ Element(type, f).of = Chunk
    BY <1>2, <1>3
  <2>2. Values(type, msg, f) = msg["Chunk"]
    BY <1>1, <1>2, <1>3, <2>1 DEF Values
  <2> QED BY <1>5, <2>1, <2>2, ChunkMsgFits
<1>9. InnerOK(type, msg)
  BY <1>6, <1>7, <1>8, InnerRoundTrip
<1> QED BY <1>9 DEF type, msg

\* The fields of a torrent.
LEMMA TorrentFieldFacts ==
  LET type == Torrent
  IN  /\ type.required = {"TorrentId", "Type", "TotalSize", "CreateBy", "CreateTime", "TrackerAddress"}
      /\ DOMAIN type.fields = {"TorrentId", "Type", "TotalSize", "CreateBy", "CreateTime",
                               "TrackerAddress", "File", "Introduction"}
      /\ \A f \in DOMAIN type.fields : IsRepeated(type, f) <=> f = "File"
      /\ \A f \in DOMAIN type.fields : Element(type, f).kind = "message" =>
           f = "File" /\ Element(type, f).of = File
<1> DEFINE type == Torrent
<1>1. /\ type.fields = TorrentFields
      /\ type.required = {"TorrentId", "Type", "TotalSize", "CreateBy", "CreateTime", "TrackerAddress"}
      /\ DOMAIN type.fields = {"TorrentId", "Type", "TotalSize", "CreateBy", "CreateTime",
                               "TrackerAddress", "File", "Introduction"}
  BY DEF Torrent, Message, TorrentFields, TorrentWire
<1>2. /\ \A f \in DOMAIN type.fields \ {"File"} : type.fields[f] = Text \/ type.fields[f] = Number(0)
      /\ type.fields["File"] = Repeated(Nested(File))
  BY <1>1 DEF TorrentFields
<1> HIDE DEF type
<1>3. /\ \A f \in DOMAIN type.fields : IsRepeated(type, f) <=> f = "File"
      /\ \A f \in DOMAIN type.fields : Element(type, f).kind = "message" =>
           f = "File" /\ Element(type, f).of = File
  BY <1>2, KindFacts DEF IsRepeated, Element
<1> QED BY <1>1, <1>3 DEF type

(* A torrent that has been written is read back, and an empty file is not  *)
(* a torrent.                                                              *)
LEMMA TorrentRoundTrip ==
  ASSUME NEW id \in TorrentIds
  PROVE  Parse(Torrent, Written(id)) = Read(TorrentMsg(id))
<1> DEFINE type == Torrent
           msg == TorrentMsg(id)
<1>1. DOMAIN msg = DOMAIN type.fields \ {"Introduction"} /\ msg = [f \in DOMAIN msg |-> msg[f]]
  BY TorrentFieldFacts DEF TorrentMsg
<1>2. msg["File"] = [i \in DOMAIN TorrentFiles[id] |-> FileMsg(TorrentFiles[id][i])]
  BY DEF TorrentMsg
<1>3. IsSeq(msg["File"]) /\ \A i \in DOMAIN msg["File"] : InnerOK(File, msg["File"][i])
  <2> DEFINE s == TorrentFiles[id]
  <2>1. IsSeq(s) /\ \A i \in DOMAIN s : s[i].chunks \in Nat
    BY FileFacts
  <2>2. msg["File"] = [i \in DOMAIN s |-> FileMsg(s[i])]
    BY <1>2
  <2> HIDE DEF s, msg
  <2>3. Len(s) \in Nat /\ DOMAIN s = 1 .. Len(s)
    BY <2>1, SeqFacts
  <2>4. msg["File"] \in Seq({FileMsg(s[i]) : i \in DOMAIN s})
    BY <2>2, <2>3
  <2>5. \A i \in DOMAIN s : InnerOK(File, FileMsg(s[i]))
    BY <2>1, FileMsgFits
  <2> QED BY <2>2, <2>4, <2>5 DEF IsSeq
<1> HIDE DEF type, msg
<1>4. Fits(type, msg)
  BY <1>1, <1>3, TorrentFieldFacts DEF Fits, type
<1>5. WellFormed(type)
  BY TorrentWellFormed DEF type
<1>6. \A f \in DOMAIN msg : Element(type, f).kind = "message" =>
        \A i \in DOMAIN Values(type, msg, f) : InnerOK(Element(type, f).of, Values(type, msg, f)[i])
  <2> SUFFICES ASSUME NEW f \in DOMAIN msg, Element(type, f).kind = "message",
                      NEW i \in DOMAIN Values(type, msg, f)
               PROVE  InnerOK(Element(type, f).of, Values(type, msg, f)[i])
    OBVIOUS
  <2>1. f \in DOMAIN type.fields /\ f = "File" /\ Element(type, f).of = File /\ IsRepeated(type, f)
    BY <1>1, TorrentFieldFacts DEF type
  <2>2. Values(type, msg, f) = msg["File"]
    BY <2>1 DEF Values
  <2> QED BY <1>3, <2>1, <2>2
<1>7. OuterOK(type, msg)
  BY <1>4, <1>5, <1>6, OuterRoundTrip
<1> QED BY <1>7 DEF OuterOK, Parse, Written, type, msg

\* An empty torrent file, as MakeTorrent opens it, cannot be read.
LEMMA NoTorrent == ~Parse(Torrent, Nothing).ok
<1>1. Split(Nothing) = <<>>
  BY SplitEmpty DEF Nothing
<1>2. "TorrentId" \in Torrent.required /\ ~IsRepeated(Torrent, "TorrentId")
      /\ \E n \in DOMAIN Torrent.order : Torrent.order[n] = "TorrentId"
  <2>1. "TorrentId" \in Torrent.required /\ ~IsRepeated(Torrent, "TorrentId")
    BY TorrentFieldFacts
  <2>2. "TorrentId" \in DOMAIN Torrent.fields
    BY TorrentFieldFacts
  <2> QED BY <2>1, <2>2, TorrentWellFormed DEF WellFormed
<1>3. ASSUME NEW n PROVE ~IsRepeated(Torrent, Torrent.order[n]) => Pieces(Torrent, <<>>, n) = <<>>
  BY TaggedEmpty DEF Pieces
<1>4. "TorrentId" \notin FieldsSet(Torrent, <<>>)
  BY <1>2, <1>3 DEF FieldsSet, IsSet
<1>5. ~IsRead(Torrent, Nothing)
  BY <1>1, <1>2, <1>4 DEF IsRead, AllRead
<1> QED BY <1>5 DEF Parse, Cut
-----------------------------------------------------------------------------
(* Jobs                                                                    *)

(* The bitmaps of files, each as long as its file.                         *)
Sized(bits) ==
  /\ bits = [fileid \in DOMAIN bits |-> bits[fileid]]
  /\ DOMAIN bits \subseteq FileIds
  /\ \A fileid \in DOMAIN bits : bits[fileid] \in Bitmaps(ChunksOf(fileid))

\* A job: of a torrent that exists, with bitmaps for files it needs.
IsJob(job) ==
  /\ job = [torrent |-> job.torrent, path |-> job.path, top |-> job.top,
            bitmap_map |-> job.bitmap_map]
  /\ \E id \in TorrentIds : job.torrent = TorrentMsg(id)
  /\ job.top \in TorrentIds
  /\ Sized(job.bitmap_map)

(* Every file of the job has a bitmap.                                     *)
HasAll(job) ==
  \A f \in DOMAIN job.torrent.File : job.torrent.File[f].CheckSum \in DOMAIN job.bitmap_map

\* An entry whose bitmaps are as long as their files.
SizedEntry(entry) ==
  /\ entry.LocalTopPath \in TorrentIds
  /\ \A i \in DOMAIN entry.File :
       /\ entry.File[i].Fileid \in FileIds
       /\ reloaded_bitmap(entry.File[i]) \in Bitmaps(ChunksOf(entry.File[i].Fileid))

\* What the message of a torrent holds.
LEMMA TorrentFacts ==
  ASSUME NEW id \in TorrentIds
  PROVE  LET torrent == TorrentMsg(id)
         IN  /\ torrent.TorrentId = id /\ IsSeq(torrent.File)
             /\ \A i \in DOMAIN torrent.File :
                  /\ torrent.File[i].CheckSum \in FileIds
                  /\ Len(torrent.File[i].Chunk) = ChunksOf(torrent.File[i].CheckSum)
                  /\ ChunksOf(torrent.File[i].CheckSum) \in Nat
<1> DEFINE s == TorrentFiles[id]
           torrent == TorrentMsg(id)
<1>1. IsSeq(s) /\ \A i \in DOMAIN s : s[i].CheckSum \in FileIds /\ s[i].chunks \in Nat
                                      /\ ChunksOf(s[i].CheckSum) = s[i].chunks
  BY FileFacts
<1>2. torrent.TorrentId = id /\ torrent.File = [i \in DOMAIN s |-> FileMsg(s[i])]
  BY DEF TorrentMsg
<1> HIDE DEF s, torrent
<1>3. Len(s) \in Nat /\ DOMAIN s = 1 .. Len(s)
  BY <1>1, SeqFacts
<1>4. torrent.File \in Seq({FileMsg(s[i]) : i \in DOMAIN s})
  BY <1>2, <1>3
<1>5. ASSUME NEW i \in DOMAIN torrent.File
      PROVE  /\ torrent.File[i].CheckSum = s[i].CheckSum
             /\ Len(torrent.File[i].Chunk) = s[i].chunks
  <2>1. i \in DOMAIN s /\ torrent.File[i] = FileMsg(s[i])
    BY <1>2
  <2>2. FileMsg(s[i]).CheckSum = s[i].CheckSum /\ FileMsg(s[i]).Chunk = [c \in 1 .. s[i].chunks |-> ChunkMsg]
    BY DEF FileMsg
  <2> DEFINE k == s[i].chunks
  <2>3. k \in Nat
    BY <1>1, <2>1
  <2> HIDE DEF k
  <2>4. Len([c \in 1 .. k |-> ChunkMsg]) = k
    BY <2>3
  <2> QED BY <2>1, <2>2, <2>4 DEF k
<1>6. DOMAIN torrent.File = DOMAIN s
  BY <1>2
<1> QED BY <1>1, <1>2, <1>4, <1>5, <1>6 DEF IsSeq, torrent

\* A bitmap without bits set.
LEMMA EmptyBitmap ==
  ASSUME NEW n \in Nat
  PROVE  Bitmap(n, {}) \in Bitmaps(n) /\ Bitmap(n, {}).ones = {} /\ Bitmap(n, {}).size = n
BY DEF Bitmaps, Bitmap

\* The greatest of one number.
LEMMA MaxOfOne == ASSUME NEW x \in Nat, NEW S, S = {x} PROVE Max(S) = x
BY DEF Max

(* A new job has an empty bitmap for every file that is needed.            *)
IsNewJob(job, id, path, top) ==
  /\ IsJob(job) /\ job.torrent = TorrentMsg(id) /\ job.path = path /\ job.top = top
  /\ \A fileid \in DOMAIN job.bitmap_map :
       /\ job.bitmap_map[fileid].ones = {}
       /\ job.bitmap_map[fileid].size = ChunksOf(fileid)
       /\ ChunksOf(fileid) \in Nat

\* What JobInfo makes of a torrent, whatever files are needed.
LEMMA NewJob ==
  ASSUME NEW id \in TorrentIds, NEW path, NEW top \in TorrentIds, NEW needs
  PROVE  IsNewJob(JobInfo(TorrentMsg(id), path, top, needs), id, path, top)
<1> DEFINE torrent == TorrentMsg(id)
           job == JobInfo(torrent, path, top, needs)
           file == torrent.File
           needed == {i \in DOMAIN file : file[i].Filename \in needs}
           D == {file[i].CheckSum : i \in needed}
           Lengths(fileid) == {Len(file[i].Chunk) : i \in {j \in needed : file[j].CheckSum = fileid}}
<1>1. \A i \in DOMAIN file : /\ file[i].CheckSum \in FileIds
                             /\ Len(file[i].Chunk) = ChunksOf(file[i].CheckSum)
                             /\ ChunksOf(file[i].CheckSum) \in Nat
  BY TorrentFacts
<1>2. /\ job = [torrent |-> torrent, path |-> path, top |-> top, bitmap_map |-> job.bitmap_map]
      /\ job.torrent = torrent /\ job.path = path /\ job.top = top
      /\ job.bitmap_map = [fileid \in D |-> Bitmap(Max(Lengths(fileid)), {})]
  BY DEF JobInfo
<1> HIDE DEF job, torrent
<1>3. ASSUME NEW fileid \in D
      PROVE  /\ fileid \in FileIds /\ ChunksOf(fileid) \in Nat
             /\ job.bitmap_map[fileid] = Bitmap(ChunksOf(fileid), {})
  <2>1. PICK i \in needed : fileid = file[i].CheckSum
    OBVIOUS
  <2>2. fileid \in FileIds /\ ChunksOf(fileid) \in Nat
    BY <1>1, <2>1
  <2>3. Lengths(fileid) = {ChunksOf(fileid)}
    BY <1>1, <2>1
  <2> HIDE DEF Lengths, D
  <2>4. Max(Lengths(fileid)) = ChunksOf(fileid)
    BY <2>2, <2>3, MaxOfOne
  <2> QED BY <1>2, <2>2, <2>4
<1> HIDE DEF Lengths, D
<1>4. DOMAIN job.bitmap_map = D
  BY <1>2
<1>5. Sized(job.bitmap_map)
  <2>1. \A fileid \in D : job.bitmap_map[fileid] \in Bitmaps(ChunksOf(fileid))
    BY <1>3, EmptyBitmap
  <2> QED BY <1>2, <1>3, <1>4, <2>1 DEF Sized
<1>6. IsJob(job)
  BY <1>2, <1>5 DEF IsJob, torrent
<1>7. \A fileid \in D : job.bitmap_map[fileid].ones = {} /\ job.bitmap_map[fileid].size = ChunksOf(fileid)
  BY <1>3, EmptyBitmap
<1>8. IsNewJob(job, id, path, top)
  BY <1>2, <1>3, <1>4, <1>6, <1>7 DEF IsNewJob, torrent
<1> QED BY <1>8 DEF job, torrent
-----------------------------------------------------------------------------
(* Jobs saved and reloaded                                                 *)

\* A bitmap as long as its file comes back from its blocks.
LEMMA SizedFacts ==
  ASSUME NEW fileid \in FileIds, NEW bitmap \in Bitmaps(ChunksOf(fileid))
  PROVE  /\ ChunksOf(fileid) \in Nat /\ bitmap.size = ChunksOf(fileid)
         /\ bitmap.ones \subseteq 0 .. ChunksOf(fileid) - 1
         /\ bitmap = Bitmap(bitmap.size, bitmap.ones)
         /\ IsSeq(to_block_range(bitmap))
         /\ resize(from_block_range(to_block_range(bitmap)), bitmap.size) = bitmap
<1>1. ChunksOf(fileid) \in Nat
  <2>1. PICK id \in TorrentIds : \E file \in FilesOf(id) : fileid = file.CheckSum
    BY DEF FileIds, AllFiles
  <2>2. PICK i \in DOMAIN TorrentFiles[id] : fileid = TorrentFiles[id][i].CheckSum
    BY <2>1 DEF FilesOf, ToSet
  <2> QED BY <2>2, FileFacts
<1> DEFINE n == ChunksOf(fileid)
<1> HIDE DEF n
<1>2. n \in Nat /\ bitmap \in Bitmaps(n)
  BY <1>1 DEF n
<1>3. bitmap.size = n /\ to_block_range(bitmap) \in Seq(SUBSET Nat)
      /\ resize(from_block_range(to_block_range(bitmap)), n) = bitmap
  BY <1>2, BitmapRoundTrip
<1>4. bitmap.ones \subseteq 0 .. n - 1 /\ bitmap = Bitmap(bitmap.size, bitmap.ones)
  BY <1>2 DEF Bitmaps, Bitmap
<1> QED BY <1>1, <1>3, <1>4 DEF n, IsSeq

\* What is saved of a file, and the bitmap that is reloaded of it.
LEMMA SavedFileFacts ==
  ASSUME NEW job, IsJob(job), NEW file, file.CheckSum \in DOMAIN job.bitmap_map
  PROVE  LET info == SavedFile(job, file)
         IN  /\ IsSavedFile(info) /\ info.Fileid = file.CheckSum /\ info.Fileid \in FileIds
             /\ reloaded_bitmap(info) = job.bitmap_map[file.CheckSum]
             /\ reloaded_bitmap(info) \in Bitmaps(ChunksOf(info.Fileid))
<1> DEFINE info == SavedFile(job, file)
           bitmap == job.bitmap_map[file.CheckSum]
<1>1. file.CheckSum \in FileIds /\ bitmap \in Bitmaps(ChunksOf(file.CheckSum))
  BY DEF IsJob, Sized
<1>2. info = [Fileid |-> file.CheckSum, RelativePath |-> file.RelativePath, Filename |-> file.Filename,
              FileBit |-> to_block_range(bitmap), FileBitCount |-> bitmap.size]
  BY DEF SavedFile
<1>3. info.Fileid = file.CheckSum /\ info.FileBit = to_block_range(bitmap) /\ info.FileBitCount = bitmap.size
  BY <1>2
<1> HIDE DEF bitmap
<1>4. IsSeq(to_block_range(bitmap)) /\ resize(from_block_range(to_block_range(bitmap)), bitmap.size) = bitmap
  BY <1>1, SizedFacts
<1>5. IsSavedFile(info)
  BY <1>2, <1>4 DEF IsSavedFile
<1> HIDE DEF info
<1>6. reloaded_bitmap(info) = bitmap
  BY <1>3, <1>4 DEF reloaded_bitmap
<1> QED BY <1>1, <1>3, <1>5, <1>6 DEF info, bitmap

(* A job that has all its bitmaps, saved and reloaded.                     *)
LEMMA SavedJobFacts ==
  ASSUME NEW job, IsJob(job), HasAll(job)
  PROVE  LET entry == SavedJob(job)
         IN  /\ IsEntry(entry) /\ SizedEntry(entry)
             /\ entry.TorrentPath = job.path /\ entry.LocalTopPath = job.top
             /\ DOMAIN entry.File = DOMAIN job.torrent.File
             /\ \A f \in DOMAIN entry.File :
                  /\ entry.File[f].Fileid = job.torrent.File[f].CheckSum
                  /\ entry.File[f].Fileid \in DOMAIN job.bitmap_map
                  /\ reloaded_bitmap(entry.File[f]) = job.bitmap_map[entry.File[f].Fileid]
<1> DEFINE entry == SavedJob(job)
           s == job.torrent.File
<1>1. IsSeq(s)
  BY TorrentFacts DEF IsJob
<1>2. /\ entry = [TorrentPath |-> job.path, LocalTopPath |-> job.top, UploadTotal |-> 0, DownloadTotal |-> 0,
                  File |-> [f \in DOMAIN s |-> SavedFile(job, s[f])]]
  BY DEF SavedJob
<1>3. entry.TorrentPath = job.path /\ entry.LocalTopPath = job.top
      /\ entry.File = [f \in DOMAIN s |-> SavedFile(job, s[f])]
  BY <1>2
<1>4. \A f \in DOMAIN s : s[f].CheckSum \in DOMAIN job.bitmap_map
  BY DEF HasAll
<1> HIDE DEF s
<1>5. ASSUME NEW f \in DOMAIN s
      PROVE  /\ IsSavedFile(SavedFile(job, s[f])) /\ SavedFile(job, s[f]).Fileid = s[f].CheckSum
             /\ s[f].CheckSum \in FileIds
             /\ reloaded_bitmap(SavedFile(job, s[f])) = job.bitmap_map[s[f].CheckSum]
             /\ reloaded_bitmap(SavedFile(job, s[f])) \in Bitmaps(ChunksOf(s[f].CheckSum))
  BY <1>4, SavedFileFacts
<1>6. IsSeq([f \in DOMAIN s |-> SavedFile(job, s[f])])
  <2>1. Len(s) \in Nat /\ DOMAIN s = 1 .. Len(s)
    BY <1>1, SeqFacts
  <2>2. [f \in DOMAIN s |-> SavedFile(job, s[f])] \in Seq({SavedFile(job, s[f]) : f \in DOMAIN s})
    BY <2>1
  <2> QED BY <2>2 DEF IsSeq
<1>7. IsEntry(entry)
  <2>1. entry = [TorrentPath |-> entry.TorrentPath, LocalTopPath |-> entry.LocalTopPath,
                 File |-> entry.File, UploadTotal |-> entry.UploadTotal,
                 DownloadTotal |-> entry.DownloadTotal]
    BY <1>2
  <2> HIDE DEF entry
  <2> QED BY <1>3, <1>5, <1>6, <2>1 DEF IsEntry
<1> HIDE DEF entry
<1>8. job.top \in TorrentIds
  BY DEF IsJob
<1>9. SizedEntry(entry)
  BY <1>3, <1>5, <1>8 DEF SizedEntry
<1> QED BY <1>3, <1>4, <1>5, <1>7, <1>9 DEF entry, s

(* A job that is made of an entry and of a torrent, whatever the torrent.  *)
LEMMA ReloadedJobFacts ==
  ASSUME NEW id \in TorrentIds, NEW entry, SizedEntry(entry)
  PROVE  LET job == ReloadedJob(TorrentMsg(id), entry)
             bits == job.bitmap_map
         IN  /\ IsJob(job) /\ job.torrent = TorrentMsg(id)
             /\ job.path = entry.TorrentPath /\ job.top = entry.LocalTopPath
             /\ \A fileid \in DOMAIN bits :
                  \/ bits[fileid].ones = {}
                  \/ \E f \in DOMAIN entry.File : /\ entry.File[f].Fileid = fileid
                                                  /\ bits[fileid] = reloaded_bitmap(entry.File[f])
             /\ \A f \in DOMAIN entry.File :
                  \E g \in DOMAIN entry.File :
                    /\ entry.File[g].Fileid = entry.File[f].Fileid
                    /\ bits[entry.File[f].Fileid] = reloaded_bitmap(entry.File[g])
<1> DEFINE torrent == TorrentMsg(id)
           needs == {file.Filename : file \in ToSet(entry.File)}
           info == JobInfo(torrent, entry.TorrentPath, entry.LocalTopPath, needs)
           D == {file.Fileid : file \in ToSet(entry.File)}
           saved_bitmaps == [fileid \in D |->
              reloaded_bitmap(CHOOSE file \in ToSet(entry.File) : file.Fileid = fileid)]
           job == ReloadedJob(torrent, entry)
           bits == Over(saved_bitmaps, info.bitmap_map)
<1>1. /\ IsJob(info) /\ info.torrent = torrent /\ info.path = entry.TorrentPath
      /\ info.top = entry.LocalTopPath
      /\ \A fileid \in DOMAIN info.bitmap_map : info.bitmap_map[fileid].ones = {}
  <2>1. entry.LocalTopPath \in TorrentIds
    BY DEF SizedEntry
  <2> HIDE DEF needs
  <2>2. IsNewJob(info, id, entry.TorrentPath, entry.LocalTopPath)
    BY <2>1, NewJob
  <2> QED BY <2>2 DEF IsNewJob
<1>2. job = [info EXCEPT !.bitmap_map = bits]
  BY DEF ReloadedJob
<1> HIDE DEF info
<1>3. /\ job = [torrent |-> info.torrent, path |-> info.path, top |-> info.top, bitmap_map |-> bits]
      /\ job.torrent = torrent /\ job.path = entry.TorrentPath /\ job.top = entry.LocalTopPath
      /\ job.bitmap_map = bits
  <2> DEFINE m == bits
  <2> HIDE DEF m, torrent
  <2>1. info = [torrent |-> info.torrent, path |-> info.path, top |-> info.top,
                bitmap_map |-> info.bitmap_map]
    BY <1>1 DEF IsJob
  <2>2. job = [info EXCEPT !.bitmap_map = m]
    BY <1>2 DEF m
  <2> HIDE DEF job
  <2>3. job = [torrent |-> info.torrent, path |-> info.path, top |-> info.top, bitmap_map |-> m]
    BY <2>1, <2>2
  <2>4. job.torrent = info.torrent /\ job.path = info.path /\ job.top = info.top /\ job.bitmap_map = m
    BY <2>3
  <2> QED BY <1>1, <2>3, <2>4 DEF m
<1>4. /\ DOMAIN saved_bitmaps = D
      /\ \A fileid \in D : \E f \in DOMAIN entry.File :
           entry.File[f].Fileid = fileid /\ saved_bitmaps[fileid] = reloaded_bitmap(entry.File[f])
  <2> SUFFICES ASSUME NEW fileid \in D
               PROVE  \E f \in DOMAIN entry.File :
                        entry.File[f].Fileid = fileid /\ saved_bitmaps[fileid] = reloaded_bitmap(entry.File[f])
    OBVIOUS
  <2> DEFINE file == CHOOSE file \in ToSet(entry.File) : file.Fileid = fileid
  <2>1. file \in ToSet(entry.File) /\ file.Fileid = fileid
    OBVIOUS
  <2>2. saved_bitmaps[fileid] = reloaded_bitmap(file)
    OBVIOUS
  <2> HIDE DEF file, saved_bitmaps
  <2>3. PICK f \in DOMAIN entry.File : file = entry.File[f]
    BY <2>1 DEF ToSet
  <2> QED BY <2>1, <2>2, <2>3
<1>5. /\ DOMAIN bits = D \cup DOMAIN info.bitmap_map
      /\ bits = [fileid \in DOMAIN bits |-> bits[fileid]]
      /\ \A fileid \in D : bits[fileid] = saved_bitmaps[fileid]
      /\ \A fileid \in DOMAIN info.bitmap_map \ D : bits[fileid] = info.bitmap_map[fileid]
  <2> DEFINE m == saved_bitmaps
             k == info.bitmap_map
  <2>1. Over(m, k) = [fileid \in DOMAIN m \cup DOMAIN k |-> IF fileid \in DOMAIN m THEN m[fileid] ELSE k[fileid]]
    <3> HIDE DEF m, k
    <3> QED BY DEF Over
  <2>2. DOMAIN m = D
    BY <1>4
  <2> HIDE DEF m, k, D
  <2>3. /\ DOMAIN Over(m, k) = D \cup DOMAIN k
        /\ \A fileid \in D : Over(m, k)[fileid] = m[fileid]
        /\ \A fileid \in DOMAIN k \ D : Over(m, k)[fileid] = k[fileid]
    BY <2>1, <2>2
  <2>4. Over(m, k) = [fileid \in DOMAIN Over(m, k) |-> Over(m, k)[fileid]]
    BY <2>1
  <2> QED BY <2>3, <2>4 DEF m, k
<1> HIDE DEF saved_bitmaps, bits
<1>6. \A f \in DOMAIN entry.File : entry.File[f].Fileid \in D
  BY DEF ToSet
<1> HIDE DEF D
<1>7. Sized(bits)
  <2>1. Sized(info.bitmap_map)
    BY <1>1 DEF IsJob
  <2>2. ASSUME NEW fileid \in DOMAIN bits
        PROVE  fileid \in FileIds /\ bits[fileid] \in Bitmaps(ChunksOf(fileid))
    <3>1. CASE fileid \in D
      BY <1>4, <1>5, <3>1 DEF SizedEntry
    <3>2. CASE fileid \notin D
      BY <1>5, <2>1, <2>2, <3>2 DEF Sized
    <3> QED BY <3>1, <3>2
  <2> QED BY <1>5, <2>2 DEF Sized
<1> HIDE DEF job
<1>8. IsJob(job)
  <2>1. entry.LocalTopPath \in TorrentIds
    BY DEF SizedEntry
  <2> QED BY <1>1, <1>3, <1>7, <2>1 DEF IsJob, torrent
<1>9. ASSUME NEW fileid \in DOMAIN bits
      PROVE  \/ bits[fileid].ones = {}
             \/ \E f \in DOMAIN entry.File : /\ entry.File[f].Fileid = fileid
                                             /\ bits[fileid] = reloaded_bitmap(entry.File[f])
  BY <1>1, <1>4, <1>5
<1>10. ASSUME NEW f \in DOMAIN entry.File
       PROVE  \E g \in DOMAIN entry.File :
                 /\ entry.File[g].Fileid = entry.File[f].Fileid
                 /\ bits[entry.File[f].Fileid] = reloaded_bitmap(entry.File[g])
  BY <1>4, <1>5, <1>6
<1> QED BY <1>3, <1>8, <1>9, <1>10 DEF job, torrent

(* A job that has been saved and is reloaded with its torrent is the same. *)
LEMMA SameAfterReload ==
  ASSUME NEW job, IsJob(job), HasAll(job)
  PROVE  SameJob(job, ReloadedJob(job.torrent, SavedJob(job)))
<1> DEFINE entry == SavedJob(job)
           again == ReloadedJob(job.torrent, entry)
<1>1. PICK id \in TorrentIds : job.torrent = TorrentMsg(id)
  BY DEF IsJob
<1>2. /\ SizedEntry(entry) /\ entry.TorrentPath = job.path /\ entry.LocalTopPath = job.top
      /\ DOMAIN entry.File = DOMAIN job.torrent.File
      /\ \A f \in DOMAIN entry.File :
           /\ entry.File[f].Fileid = job.torrent.File[f].CheckSum
           /\ reloaded_bitmap(entry.File[f]) = job.bitmap_map[entry.File[f].Fileid]
  BY SavedJobFacts
<1> HIDE DEF entry
<1>3. /\ again.torrent = job.torrent /\ again.path = entry.TorrentPath /\ again.top = entry.LocalTopPath
      /\ \A f \in DOMAIN entry.File :
           \E g \in DOMAIN entry.File :
              /\ entry.File[g].Fileid = entry.File[f].Fileid
              /\ again.bitmap_map[entry.File[f].Fileid] = reloaded_bitmap(entry.File[g])
  BY <1>1, <1>2, ReloadedJobFacts
<1> HIDE DEF again
<1>4. SameJob(job, again)
  BY <1>2, <1>3 DEF SameJob
<1> QED BY <1>4 DEF again, entry
-----------------------------------------------------------------------------
(* The history as it is read                                               *)

\* A sequence with an element more.
LEMMA SeqAppend ==
  ASSUME NEW s, IsSeq(s), NEW x
  PROVE  /\ IsSeq(Append(s, x)) /\ Len(s) \in Nat /\ DOMAIN s = 1 .. Len(s)
         /\ DOMAIN Append(s, x) = 1 .. Len(s) + 1 /\ Append(s, x)[Len(s) + 1] = x
         /\ \A i \in DOMAIN s : Append(s, x)[i] = s[i]
<1>1. PICK T : s \in Seq(T)
  BY DEF IsSeq
<1> DEFINE S == T \cup {x}
<1>2. x \in S /\ T \subseteq S
  OBVIOUS
<1> HIDE DEF S
<1>3. s \in Seq(S)
  BY <1>1, <1>2, SeqMonotonic
<1> DEFINE r == Append(s, x)
<1>4. r \in Seq(S) /\ Len(r) = Len(s) + 1 /\ r[Len(s) + 1] = x /\ \A i \in 1 .. Len(s) : r[i] = s[i]
  BY <1>2, <1>3, AppendProperties
<1> HIDE DEF r
<1>5. Len(s) \in Nat /\ DOMAIN s = 1 .. Len(s) /\ DOMAIN r = 1 .. Len(s) + 1
  BY <1>3, <1>4
<1> QED BY <1>4, <1>5 DEF IsSeq, r

\* A sequence without its first element.
LEMMA SeqTail ==
  ASSUME NEW s, IsSeq(s), s # <<>>
  PROVE  /\ IsSeq(Tail(s)) /\ Len(s) \in Nat \ {0} /\ DOMAIN s = 1 .. Len(s) /\ Head(s) = s[1]
         /\ Len(Tail(s)) = Len(s) - 1 /\ DOMAIN Tail(s) = 1 .. Len(s) - 1
         /\ \A i \in DOMAIN Tail(s) : Tail(s)[i] = s[i + 1] /\ i + 1 \in DOMAIN s
<1>1. PICK T : s \in Seq(T)
  BY DEF IsSeq
<1>2. Tail(s) \in Seq(T) /\ Len(s) \in Nat \ {0} /\ DOMAIN s = 1 .. Len(s) /\ Head(s) = s[1]
      /\ Len(Tail(s)) = Len(s) - 1 /\ \A i \in 1 .. Len(s) - 1 : Tail(s)[i] = s[i + 1]
  BY <1>1
<1>3. DOMAIN Tail(s) = 1 .. Len(s) - 1
  BY <1>2
<1> QED BY <1>2, <1>3 DEF IsSeq

\* A sequence with an element removed.
LEMMA SeqRemove ==
  ASSUME NEW s, IsSeq(s), NEW i \in DOMAIN s
  PROVE  LET r == RemoveAt(s, i)
         IN  /\ IsSeq(r) /\ Len(s) \in Nat \ {0} /\ DOMAIN s = 1 .. Len(s) /\ DOMAIN r = 1 .. Len(s) - 1
             /\ \A k \in DOMAIN r : r[k] = s[IF k < i THEN k ELSE k + 1]
<1>1. PICK T : s \in Seq(T)
  BY DEF IsSeq
<1>2. Len(s) \in Nat \ {0} /\ DOMAIN s = 1 .. Len(s) /\ i \in 1 .. Len(s)
  BY <1>1
<1> DEFINE a == SubSeq(s, 1, i - 1)
           b == SubSeq(s, i + 1, Len(s))
           r == a \o b
<1>3. /\ a \in Seq(T) /\ Len(a) = i - 1 /\ \A k \in 1 .. i - 1 : a[k] = s[k]
      /\ b \in Seq(T) /\ Len(b) = Len(s) - i /\ \A k \in 1 .. Len(s) - i : b[k] = s[i + k]
  BY <1>1, <1>2
<1> HIDE DEF a, b
<1>4. /\ r \in Seq(T) /\ Len(r) = Len(a) + Len(b)
      /\ \A k \in 1 .. Len(a) + Len(b) : r[k] = IF k <= Len(a) THEN a[k] ELSE b[k - Len(a)]
  BY <1>3, ConcatProperties
<1> HIDE DEF r
<1>5. Len(r) = Len(s) - 1 /\ DOMAIN r = 1 .. Len(s) - 1
  BY <1>2, <1>3, <1>4
<1>6. ASSUME NEW k \in DOMAIN r PROVE r[k] = s[IF k < i THEN k ELSE k + 1]
  <2>1. CASE k < i
    BY <1>2, <1>3, <1>4, <1>5, <2>1
  <2>2. CASE k >= i
    <3>1. PICK m \in 1 .. Len(s) - i : k = m + i - 1
      <4>1. k - i + 1 \in 1 .. Len(s) - i /\ k = (k - i + 1) + i - 1
        BY <1>2, <1>5, <2>2
      <4> QED BY <4>1
    <3>2. r[k] = b[m]
      <4>1. ~(k <= Len(a)) /\ k - Len(a) = m /\ k \in 1 .. Len(a) + Len(b)
        BY <1>2, <1>3, <1>5, <3>1
      <4> QED BY <1>4, <4>1
    <3>3. b[m] = s[i + m] /\ i + m = k + 1 /\ ~(k < i)
      <4>1. b[m] = s[i + m]
        BY <1>3
      <4>2. i + m = k + 1 /\ ~(k < i)
        BY <1>2, <1>5, <2>2, <3>1
      <4> QED BY <4>1, <4>2
    <3>4. r[k] = s[k + 1]
      BY <3>2, <3>3
    <3> QED BY <3>3, <3>4
  <2> QED BY <1>2, <1>5, <2>1, <2>2
<1>7. RemoveAt(s, i) = r
  BY DEF RemoveAt, r, a, b
<1> QED BY <1>2, <1>4, <1>5, <1>6, <1>7 DEF IsSeq

\* A sequence with an element replaced.
LEMMA SeqUpdate ==
  ASSUME NEW s, IsSeq(s), NEW i \in DOMAIN s, NEW x
  PROVE  LET r == [s EXCEPT ![i] = x]
         IN  /\ IsSeq(r) /\ DOMAIN r = DOMAIN s /\ r[i] = x
             /\ \A k \in DOMAIN s : k # i => r[k] = s[k]
<1> DEFINE r == [s EXCEPT ![i] = x]
           S == {r[k] : k \in DOMAIN s}
<1>1. Len(s) \in Nat /\ DOMAIN s = 1 .. Len(s)
  BY SeqFacts
<1>2. r = [k \in DOMAIN s |-> IF k = i THEN x ELSE s[k]]
  OBVIOUS
<1> HIDE DEF r
<1>3. DOMAIN r = 1 .. Len(s) /\ r = [k \in 1 .. Len(s) |-> r[k]]
  BY <1>1, <1>2
<1>4. \A k \in 1 .. Len(s) : r[k] \in S
  BY <1>1
<1> HIDE DEF S
<1>5. r \in Seq(S)
  BY <1>1, <1>3, <1>4, IsASeq
<1> QED BY <1>1, <1>2, <1>3, <1>5 DEF IsSeq, r

---------------------------------------------------------------------------
(* What the program that starts with a history has of it.                  *)
KeptOf(stream) ==
  LET read == Parse(History, stream) IN IF read.ok THEN read.msg.JobInfo ELSE <<>>

\* A program that starts with a history that is cut has the first entries of it.
LEMMA KeptCut ==
  ASSUME NEW entries, IsHistory(entries), NEW n \in 0 .. Len(HistoryStream(entries))
  PROVE  \E j \in 0 .. Len(entries) :
           KeptOf(SubSeq(HistoryStream(entries), 1, n)) = SubSeq(entries, 1, j)
<1> DEFINE stream == SubSeq(HistoryStream(entries), 1, n)
<1>1. CASE IsRead(History, stream)
  <2>1. PICK j \in 0 .. Len(entries) : Decode(History, stream) = [JobInfo |-> SubSeq(entries, 1, j)]
    BY <1>1, HistoryCut
  <2>2. KeptOf(stream) = SubSeq(entries, 1, j)
    BY <1>1, <2>1 DEF KeptOf, Parse, Read
  <2> QED BY <2>2
<1>2. CASE ~IsRead(History, stream)
  <2>1. KeptOf(stream) = <<>>
    BY <1>2 DEF KeptOf, Parse, Cut
  <2>2. Len(entries) \in Nat /\ SubSeq(entries, 1, 0) = <<>>
    BY SeqFacts DEF IsHistory
  <2>3. 0 \in 0 .. Len(entries)
    BY <2>2
  <2> QED BY <2>1, <2>2, <2>3
<1> QED BY <1>1, <1>2

\* A program that starts with a whole history has all its entries.
LEMMA KeptAll ==
  ASSUME NEW entries, IsHistory(entries)
  PROVE  KeptOf(HistoryStream(entries)) = entries
BY HistoryFits DEF OuterOK, KeptOf, Parse, Read, HistoryStream

\* The first tokens of a history, written to an empty file.
LEMMA StreamFacts ==
  ASSUME NEW entries, IsHistory(entries)
  PROVE  /\ Len(HistoryStream(entries)) \in Nat
         /\ SubSeq(HistoryStream(entries), 1, 0) = <<>>
         /\ SubSeq(HistoryStream(entries), 1, Len(HistoryStream(entries))) = HistoryStream(entries)
         /\ <<>> \o HistoryStream(entries) = HistoryStream(entries)
         /\ \A n \in 0 .. Len(HistoryStream(entries)) :
              <<>> \o SubSeq(HistoryStream(entries), 1, n) = SubSeq(HistoryStream(entries), 1, n)
<1> DEFINE s == HistoryStream(entries)
<1>1. IsSeq(s)
  BY HistoryFits DEF OuterOK, HistoryStream
<1> HIDE DEF s
<1>2. PICK T : s \in Seq(T)
  BY <1>1 DEF IsSeq
<1>3. Len(s) \in Nat /\ SubSeq(s, 1, 0) = <<>> /\ <<>> \o s = s /\ SubSeq(s, 1, Len(s)) = s
  BY <1>2
<1>4. \A n \in 0 .. Len(s) : <<>> \o SubSeq(s, 1, n) = SubSeq(s, 1, n)
  BY <1>2
<1> QED BY <1>3, <1>4 DEF s

\* A history without entries is an empty file.
LEMMA NoEntries == IsHistory(<<>>) /\ HistoryStream(<<>>) = <<>> /\ KeptOf(<<>>) = <<>>
<1>1. IsHistory(<<>>)
  <2>1. <<>> \in Seq({})
    OBVIOUS
  <2> QED BY <2>1 DEF IsHistory, IsSeq
<1>2. HistoryStream(<<>>) = <<>>
  <2>1. HistoryStream(<<>>) = FlattenSeq(EntryFields(<<>>))
    BY <1>1, HistoryLayout
  <2>2. EntryFields(<<>>) = <<>>
    BY DEF EntryFields
  <2> QED BY <2>1, <2>2, FlattenEmpty
<1> QED BY <1>1, <1>2, KeptAll
-----------------------------------------------------------------------------
(* What jobs and entries claim                                             *)

(* What is on disk, by directory and file.                                 *)
IsDisk(w) ==
  /\ w \in [TorrentIds -> [FileIds -> SUBSET Nat]]
  /\ \A id \in TorrentIds, fileid \in FileIds : w[id][fileid] \subseteq 0 .. ChunksOf(fileid) - 1

\* Nothing is removed of what is on disk.
Grows(w, v) ==
  \A id \in TorrentIds, fileid \in FileIds : w[id][fileid] \subseteq v[id][fileid]

(* What a job or an entry of the history claims is on disk.                *)
Claimed(job, w) ==
  \A fileid \in DOMAIN job.bitmap_map : job.bitmap_map[fileid].ones \subseteq w[job.top][fileid]
Backed(entry, w) ==
  \A f \in DOMAIN entry.File :
    reloaded_bitmap(entry.File[f]).ones \subseteq w[entry.LocalTopPath][entry.File[f].Fileid]

\* The jobs, and the entries of the history, claim no more than is on disk; no two
\* jobs have one torrent.
JobsOK(js, w) ==
  /\ IsSeq(js)
  /\ \A i \in DOMAIN js : IsJob(js[i]) /\ Claimed(js[i], w)
  /\ \A i, k \in DOMAIN js : js[i].torrent = js[k].torrent => i = k
EntriesOK(es, w) ==
  /\ IsHistory(es)
  /\ \A i \in DOMAIN es : SizedEntry(es[i]) /\ Backed(es[i], w)

\* The jobs as they are saved.
Saved(js) == [i \in DOMAIN js |-> SavedJob(js[i])]

\* Jobs claim no more than there is when more is on disk.
LEMMA JobsKeep ==
  ASSUME NEW js, NEW w, NEW v, JobsOK(js, w), Grows(w, v)
  PROVE  JobsOK(js, v)
<1> SUFFICES ASSUME NEW i \in DOMAIN js PROVE Claimed(js[i], v)
  BY DEF JobsOK
<1>1. IsJob(js[i]) /\ Claimed(js[i], w)
  BY DEF JobsOK
<1> DEFINE job == js[i]
<1> HIDE DEF job
<1>2. IsJob(job) /\ Claimed(job, w)
  BY <1>1 DEF job
<1>3. job.top \in TorrentIds /\ DOMAIN job.bitmap_map \subseteq FileIds
  BY <1>2 DEF IsJob, Sized
<1>4. Claimed(job, v)
  BY <1>2, <1>3 DEF Claimed, Grows
<1> QED BY <1>4 DEF job

\* Entries claim no more than there is when more is on disk.
LEMMA EntriesKeep ==
  ASSUME NEW es, NEW w, NEW v, EntriesOK(es, w), Grows(w, v)
  PROVE  EntriesOK(es, v)
<1> SUFFICES ASSUME NEW i \in DOMAIN es PROVE Backed(es[i], v)
  BY DEF EntriesOK
<1> DEFINE entry == es[i]
<1>1. SizedEntry(entry) /\ Backed(entry, w)
  BY DEF EntriesOK
<1> HIDE DEF entry
<1>2. Backed(entry, v)
  BY <1>1 DEF Backed, SizedEntry, Grows
<1> QED BY <1>2 DEF entry

\* The jobs with one more, whose torrent no other job has.
LEMMA JobsAppend ==
  ASSUME NEW js, NEW w, JobsOK(js, w), NEW job, IsJob(job), Claimed(job, w),
         \A i \in DOMAIN js : js[i].torrent # job.torrent
  PROVE  JobsOK(Append(js, job), w)
<1> DEFINE r == Append(js, job)
<1>1. IsSeq(js)
  BY DEF JobsOK
<1>2. /\ IsSeq(r) /\ Len(js) \in Nat /\ DOMAIN js = 1 .. Len(js)
      /\ DOMAIN r = 1 .. Len(js) + 1 /\ r[Len(js) + 1] = job
      /\ \A i \in DOMAIN js : r[i] = js[i]
  BY <1>1, SeqAppend
<1> HIDE DEF r
<1>3. \A i \in DOMAIN r : i \in DOMAIN js \/ i = Len(js) + 1
  BY <1>2
<1>4. \A i \in DOMAIN r : IsJob(r[i]) /\ Claimed(r[i], w)
  BY <1>2, <1>3 DEF JobsOK
<1>5. \A i, k \in DOMAIN r : r[i].torrent = r[k].torrent => i = k
  BY <1>2, <1>3 DEF JobsOK
<1> QED BY <1>2, <1>4, <1>5 DEF JobsOK, r

\* The jobs with one removed.
LEMMA JobsRemove ==
  ASSUME NEW js, NEW w, JobsOK(js, w), NEW i \in DOMAIN js
  PROVE  JobsOK(RemoveAt(js, i), w)
<1> DEFINE r == RemoveAt(js, i)
           Was(k) == IF k < i THEN k ELSE k + 1
<1>1. IsSeq(js)
  BY DEF JobsOK
<1>2. /\ IsSeq(r) /\ Len(js) \in Nat \ {0} /\ DOMAIN js = 1 .. Len(js) /\ DOMAIN r = 1 .. Len(js) - 1
      /\ \A k \in DOMAIN r : r[k] = js[Was(k)]
  BY <1>1, SeqRemove
<1> HIDE DEF r
<1>3. /\ \A k \in DOMAIN r : Was(k) \in DOMAIN js
      /\ \A k, l \in DOMAIN r : Was(k) = Was(l) => k = l
  BY <1>2
<1> HIDE DEF Was
<1>4. \A k \in DOMAIN r : IsJob(r[k]) /\ Claimed(r[k], w)
  BY <1>2, <1>3 DEF JobsOK
<1>5. \A k, l \in DOMAIN r : r[k].torrent = r[l].torrent => k = l
  BY <1>2, <1>3 DEF JobsOK
<1> QED BY <1>2, <1>4, <1>5 DEF JobsOK, r

\* The jobs with one changed that keeps its torrent.
LEMMA JobsUpdate ==
  ASSUME NEW js, NEW w, JobsOK(js, w), NEW i \in DOMAIN js, NEW job, IsJob(job), Claimed(job, w),
         job.torrent = js[i].torrent
  PROVE  JobsOK([js EXCEPT ![i] = job], w)
<1> DEFINE r == [js EXCEPT ![i] = job]
<1>1. IsSeq(js)
  BY DEF JobsOK
<1>2. IsSeq(r) /\ DOMAIN r = DOMAIN js /\ r[i] = job /\ \A k \in DOMAIN js : k # i => r[k] = js[k]
  BY <1>1, SeqUpdate
<1> HIDE DEF r
<1>3. \A k \in DOMAIN r : IsJob(r[k]) /\ Claimed(r[k], w) /\ r[k].torrent = js[k].torrent
  BY <1>2 DEF JobsOK
<1>4. \A k, l \in DOMAIN r : r[k].torrent = r[l].torrent => k = l
  BY <1>2, <1>3 DEF JobsOK
<1> QED BY <1>2, <1>3, <1>4 DEF JobsOK, r

\* No jobs, and no entries, claim nothing.
LEMMA NoJobs == ASSUME NEW w PROVE JobsOK(<<>>, w) /\ EntriesOK(<<>>, w)
<1>1. IsSeq(<<>>)
  <2>1. <<>> \in Seq({})
    OBVIOUS
  <2> QED BY <2>1 DEF IsSeq
<1> QED BY <1>1, NoEntries DEF JobsOK, EntriesOK

(* The jobs as they are saved.                                             *)
LEMMA EntriesSaved ==
  ASSUME NEW js, NEW w, JobsOK(js, w), \A i \in DOMAIN js : HasAll(js[i])
  PROVE  /\ EntriesOK(Saved(js), w) /\ DOMAIN Saved(js) = DOMAIN js
         /\ \A i \in DOMAIN js : Saved(js)[i].TorrentPath = js[i].path
<1> DEFINE es == Saved(js)
<1>1. IsSeq(js)
  BY DEF JobsOK
<1>2. Len(js) \in Nat /\ DOMAIN js = 1 .. Len(js)
  BY <1>1, SeqFacts
<1>3. es = [i \in DOMAIN js |-> SavedJob(js[i])]
  BY DEF Saved
<1> HIDE DEF es
<1>4. es \in Seq({SavedJob(js[i]) : i \in DOMAIN js}) /\ DOMAIN es = DOMAIN js
  BY <1>2, <1>3
<1>5. ASSUME NEW i \in DOMAIN js
      PROVE  IsEntry(es[i]) /\ SizedEntry(es[i]) /\ Backed(es[i], w) /\ es[i].TorrentPath = js[i].path
  <2> DEFINE job == js[i]
             entry == es[i]
  <2>1. IsJob(job) /\ Claimed(job, w) /\ HasAll(job) /\ entry = SavedJob(job)
    BY <1>3 DEF JobsOK
  <2> HIDE DEF job, entry
  <2>2. /\ IsEntry(entry) /\ SizedEntry(entry) /\ entry.TorrentPath = job.path /\ entry.LocalTopPath = job.top
        /\ \A f \in DOMAIN entry.File :
             /\ entry.File[f].Fileid \in DOMAIN job.bitmap_map
             /\ reloaded_bitmap(entry.File[f]) = job.bitmap_map[entry.File[f].Fileid]
    BY <2>1, SavedJobFacts
  <2>3. Backed(entry, w)
    BY <2>1, <2>2 DEF Backed, Claimed
  <2> QED BY <2>2, <2>3 DEF job, entry
<1> QED BY <1>4, <1>5 DEF EntriesOK, IsHistory, IsSeq, es

\* The first entries of a history.
LEMMA EntriesPart ==
  ASSUME NEW es, NEW w, EntriesOK(es, w), NEW j \in 0 .. Len(es)
  PROVE  /\ EntriesOK(SubSeq(es, 1, j), w) /\ DOMAIN SubSeq(es, 1, j) = 1 .. j
         /\ Len(es) \in Nat /\ DOMAIN es = 1 .. Len(es)
         /\ \A i \in 1 .. j : SubSeq(es, 1, j)[i] = es[i]
<1> DEFINE part == SubSeq(es, 1, j)
<1>1. IsHistory(es)
  BY DEF EntriesOK
<1>2. IsHistory(part)
  BY <1>1, PartOfEntries
<1>3. DOMAIN part = 1 .. j /\ Len(es) \in Nat /\ DOMAIN es = 1 .. Len(es) /\ \A i \in 1 .. j : part[i] = es[i]
  <2>1. PICK T : es \in Seq(T)
    BY <1>1 DEF IsHistory, IsSeq
  <2> QED BY <2>1
<1> HIDE DEF part
<1>4. \A i \in DOMAIN part : i \in DOMAIN es /\ part[i] = es[i]
  BY <1>3
<1>5. EntriesOK(part, w)
  BY <1>2, <1>4 DEF EntriesOK
<1> QED BY <1>3, <1>5 DEF part

\* The entries of a history but the first.
LEMMA EntriesTail ==
  ASSUME NEW es, NEW w, EntriesOK(es, w), es # <<>>
  PROVE  /\ EntriesOK(Tail(es), w) /\ SizedEntry(Head(es)) /\ Backed(Head(es), w)
<1>1. IsSeq(es) /\ \A i \in DOMAIN es : IsEntry(es[i]) /\ SizedEntry(es[i]) /\ Backed(es[i], w)
  BY DEF EntriesOK, IsHistory
<1> DEFINE r == Tail(es)
<1>2. /\ IsSeq(r) /\ Len(es) \in Nat \ {0} /\ DOMAIN es = 1 .. Len(es) /\ Head(es) = es[1]
      /\ \A i \in DOMAIN r : r[i] = es[i + 1] /\ i + 1 \in DOMAIN es
  BY <1>1, SeqTail
<1> HIDE DEF r
<1>3. \A i \in DOMAIN r : IsEntry(r[i]) /\ SizedEntry(r[i]) /\ Backed(r[i], w)
  BY <1>1, <1>2
<1>4. EntriesOK(r, w)
  BY <1>2, <1>3 DEF EntriesOK, IsHistory
<1>5. 1 \in DOMAIN es
  BY <1>2
<1> QED BY <1>1, <1>2, <1>4, <1>5 DEF r
-----------------------------------------------------------------------------
(* Torrent files and what is on disk                                       *)

(* The torrent under a name, among the torrent files t.                    *)
LeadsTo(t, path) == IF path \in DOMAIN t THEN Parse(Torrent, t[path]) ELSE Cut

\* Every torrent file is one that was written, or empty.
TorrentsOK(t) ==
  \A path \in DOMAIN t : t[path] = Nothing \/ \E id \in TorrentIds : t[path] = Written(id)

\* What is read, and what is not.
LEMMA ReadFacts ==
  ASSUME NEW msg
  PROVE  Read(msg).ok = TRUE /\ Read(msg).msg = msg /\ Cut.ok = FALSE
BY DEF Read, Cut

(* A torrent file that can be read is one that was written.                *)
LEMMA LeadsFacts ==
  ASSUME NEW t, TorrentsOK(t), NEW path
  PROVE  /\ LeadsTo(t, path).ok \in BOOLEAN
         /\ LeadsTo(t, path).ok =>
              \E id \in TorrentIds : /\ LeadsTo(t, path) = Read(TorrentMsg(id))
                                     /\ LeadsTo(t, path).msg = TorrentMsg(id)
                                     /\ LeadsTo(t, path).msg.TorrentId = id
<1>1. CASE path \notin DOMAIN t
  BY <1>1, ReadFacts DEF LeadsTo
<1>2. CASE path \in DOMAIN t /\ t[path] = Nothing
  <2>1. LeadsTo(t, path) = Parse(Torrent, Nothing)
    BY <1>2 DEF LeadsTo
  <2>2. Parse(Torrent, Nothing) = Cut
    <3>1. ~Parse(Torrent, Nothing).ok
      BY NoTorrent
    <3> QED BY <3>1 DEF Parse, Read
  <2> QED BY <2>1, <2>2, ReadFacts
<1>3. CASE path \in DOMAIN t /\ t[path] # Nothing
  <2>1. PICK id \in TorrentIds : t[path] = Written(id)
    BY <1>3 DEF TorrentsOK
  <2>2. LeadsTo(t, path) = Parse(Torrent, Written(id))
    BY <1>3, <2>1 DEF LeadsTo
  <2>3. Parse(Torrent, Written(id)) = Read(TorrentMsg(id))
    BY TorrentRoundTrip
  <2>4. TorrentMsg(id).TorrentId = id
    BY TorrentFacts
  <2> QED BY <2>2, <2>3, <2>4, ReadFacts
<1> QED BY <1>1, <1>2, <1>3

\* A torrent file is written, or opened to be written.
LEMMA TorrentsWrite ==
  ASSUME NEW t, TorrentsOK(t), NEW path, NEW inside,
         inside = Nothing \/ \E id \in TorrentIds : inside = Written(id)
  PROVE  TorrentsOK(Over([name \in {path} |-> inside], t))
<1> DEFINE one == [name \in {path} |-> inside]
           r == Over(one, t)
<1>1. DOMAIN one = {path} /\ one[path] = inside
  OBVIOUS
<1> HIDE DEF one
<1>2. r = [key \in DOMAIN one \cup DOMAIN t |-> IF key \in DOMAIN one THEN one[key] ELSE t[key]]
  BY DEF Over
<1> HIDE DEF r
<1>3. ASSUME NEW key \in DOMAIN r
      PROVE  r[key] = Nothing \/ \E id \in TorrentIds : r[key] = Written(id)
  <2>1. CASE key = path
    BY <1>1, <1>2, <2>1
  <2>2. CASE key # path
    BY <1>1, <1>2, <2>2 DEF TorrentsOK
  <2> QED BY <2>1, <2>2
<1> QED BY <1>3 DEF TorrentsOK, r, one

\* A torrent file is removed.
LEMMA TorrentsRemove ==
  ASSUME NEW t, TorrentsOK(t), NEW path
  PROVE  TorrentsOK([name \in DOMAIN t \ {path} |-> t[name]])
BY DEF TorrentsOK

(* The disk with a chunk more.                                             *)
LEMMA DiskGrows ==
  ASSUME NEW w, IsDisk(w), NEW id \in TorrentIds, NEW fileid \in FileIds,
         NEW chunk \in 0 .. ChunksOf(fileid) - 1, ChunksOf(fileid) \in Nat
  PROVE  LET v == [w EXCEPT ![id][fileid] = @ \cup {chunk}]
         IN  IsDisk(v) /\ Grows(w, v)
<1> DEFINE n == ChunksOf(fileid)
           more == w[id][fileid] \cup {chunk}
           v == [w EXCEPT ![id][fileid] = @ \cup {chunk}]
<1>1. w \in [TorrentIds -> [FileIds -> SUBSET Nat]] /\ w[id][fileid] \subseteq 0 .. n - 1
      /\ \A d \in TorrentIds, f \in FileIds : w[d][f] \subseteq 0 .. ChunksOf(f) - 1
  BY DEF IsDisk
<1>2. more \subseteq 0 .. n - 1 /\ more \in SUBSET Nat /\ w[id][fileid] \subseteq more
  BY <1>1
<1>3. v = [w EXCEPT ![id][fileid] = more]
  BY DEF more
<1> HIDE DEF more, v
<1>4. v \in [TorrentIds -> [FileIds -> SUBSET Nat]] /\ v[id][fileid] = more
      /\ \A d \in TorrentIds, f \in FileIds : d # id \/ f # fileid => v[d][f] = w[d][f]
  BY <1>1, <1>2, <1>3
<1>5. \A d \in TorrentIds, f \in FileIds : v[d][f] \subseteq 0 .. ChunksOf(f) - 1 /\ w[d][f] \subseteq v[d][f]
  <2> TAKE d \in TorrentIds, f \in FileIds
  <2>1. CASE d = id /\ f = fileid
    BY <1>2, <1>4, <2>1 DEF n
  <2>2. CASE d # id \/ f # fileid
    BY <1>1, <1>4, <2>2
  <2> QED BY <2>1, <2>2
<1> QED BY <1>4, <1>5 DEF IsDisk, Grows, v

(* A job with a chunk more.                                                *)
LEMMA JobGrows ==
  ASSUME NEW job, NEW w, IsJob(job), Claimed(job, w),
         NEW fileid \in DOMAIN job.bitmap_map,
         NEW chunk \in 0 .. job.bitmap_map[fileid].size - 1,
         chunk \in w[job.top][fileid]
  PROVE  LET more == [job EXCEPT !.bitmap_map[fileid].ones = @ \cup {chunk}]
         IN  /\ IsJob(more) /\ Claimed(more, w)
             /\ more.torrent = job.torrent /\ more.path = job.path /\ more.top = job.top
<1> DEFINE bits == job.bitmap_map
           bitmap == bits[fileid]
           n == ChunksOf(fileid)
           larger == [bitmap EXCEPT !.ones = @ \cup {chunk}]
           all == [bits EXCEPT ![fileid] = larger]
           more == [job EXCEPT !.bitmap_map = all]
<1>1. /\ job = [torrent |-> job.torrent, path |-> job.path, top |-> job.top, bitmap_map |-> bits]
      /\ Sized(bits) /\ fileid \in FileIds /\ bitmap \in Bitmaps(n)
  BY DEF IsJob, Sized
<1>2. n \in Nat /\ bitmap.size = n /\ bitmap.ones \subseteq 0 .. n - 1 /\ bitmap = Bitmap(bitmap.size, bitmap.ones)
  BY <1>1, SizedFacts
<1>3. larger \in Bitmaps(n) /\ larger.ones = bitmap.ones \cup {chunk}
  <2>1. bitmap = [size |-> n, ones |-> bitmap.ones]
    BY <1>2 DEF Bitmap
  <2> DEFINE b == bitmap
             ones == bitmap.ones \cup {chunk}
  <2>2. larger = [b EXCEPT !.ones = ones]
    OBVIOUS
  <2> HIDE DEF b, ones, larger
  <2>4. larger = [size |-> n, ones |-> ones]
    <3> DEFINE o == bitmap.ones
    <3>1. b = [size |-> n, ones |-> o]
      BY <2>1 DEF b
    <3> HIDE DEF o
    <3> QED BY <2>2, <3>1
  <2> HIDE DEF bitmap, n
  <2>3. bitmap.ones \cup {chunk} \subseteq 0 .. n - 1
    BY <1>2 DEF bitmap
  <2>5. larger.ones = ones /\ ones = bitmap.ones \cup {chunk}
    BY <2>4 DEF ones
  <2> QED BY <2>3, <2>4, <2>5 DEF Bitmaps, Bitmap
<1>4. [job EXCEPT !.bitmap_map[fileid].ones = @ \cup {chunk}] = more
  OBVIOUS
<1>5. bits = [f \in DOMAIN bits |-> bits[f]] /\ DOMAIN bits \subseteq FileIds
      /\ \A f \in DOMAIN bits : bits[f] \in Bitmaps(ChunksOf(f))
  BY <1>1 DEF Sized
<1>6. \A f \in DOMAIN bits : bits[f].ones \subseteq w[job.top][f]
  BY DEF Claimed
<1> HIDE DEF larger, bitmap
<1>7. /\ all = [f \in DOMAIN bits |-> all[f]] /\ DOMAIN all = DOMAIN bits
      /\ all[fileid] = larger /\ \A f \in DOMAIN bits : f # fileid => all[f] = bits[f]
  <2> HIDE DEF bits
  <2>1. fileid \in DOMAIN bits
    BY DEF bits
  <2> QED BY <1>5, <2>1
<1> HIDE DEF all
<1>8. /\ more = [torrent |-> job.torrent, path |-> job.path, top |-> job.top, bitmap_map |-> all]
      /\ more.torrent = job.torrent /\ more.path = job.path /\ more.top = job.top /\ more.bitmap_map = all
  <2> DEFINE m == bits
  <2>1. job = [torrent |-> job.torrent, path |-> job.path, top |-> job.top, bitmap_map |-> m]
    BY <1>1
  <2> HIDE DEF m
  <2>2. more = [torrent |-> job.torrent, path |-> job.path, top |-> job.top, bitmap_map |-> all]
    BY <2>1
  <2> HIDE DEF more
  <2> QED BY <2>2
<1> HIDE DEF more
<1>9. Sized(all)
  <2>1. \A f \in DOMAIN all : all[f] \in Bitmaps(ChunksOf(f))
    <3> TAKE f \in DOMAIN all
    <3>1. CASE f = fileid
      BY <1>3, <1>7, <3>1 DEF n
    <3>2. CASE f # fileid
      BY <1>5, <1>7, <3>2
    <3> QED BY <3>1, <3>2
  <2> QED BY <1>5, <1>7, <2>1 DEF Sized
<1>10. IsJob(more)
  <2>1. (\E id \in TorrentIds : job.torrent = TorrentMsg(id)) /\ job.top \in TorrentIds
    BY DEF IsJob
  <2> QED BY <1>8, <1>9, <2>1 DEF IsJob
<1>11. Claimed(more, w)
  <2>1. \A f \in DOMAIN all : all[f].ones \subseteq w[job.top][f]
    <3> TAKE f \in DOMAIN all
    <3>1. CASE f = fileid
      <4>1. bitmap.ones \subseteq w[job.top][f]
        BY <1>6, <1>7, <3>1 DEF bitmap
      <4> QED BY <1>3, <1>7, <3>1, <4>1
    <3>2. CASE f # fileid
      BY <1>6, <1>7, <3>2
    <3> QED BY <3>1, <3>2
  <2> QED BY <1>8, <2>1 DEF Claimed
<1> QED BY <1>4, <1>8, <1>10, <1>11

(* The job of a torrent that has been made, all of whose chunks are there. *)
Full(bits) ==
  [fileid \in DOMAIN bits |-> Bitmap(bits[fileid].size, 0 .. bits[fileid].size - 1)]

\* The job of a torrent that has been made: its chunks are on disk.
LEMMA MadeJob ==
  ASSUME NEW w, IsDisk(w), NEW id \in TorrentIds, NEW path, NEW info, IsJob(info),
         info.path = path, info.top = id, info.torrent = TorrentMsg(id),
         \A fileid \in DOMAIN info.bitmap_map :
           info.bitmap_map[fileid].size = ChunksOf(fileid) /\ ChunksOf(fileid) \in Nat
  PROVE  LET full == Full(info.bitmap_map)
             job == [info EXCEPT !.bitmap_map = full]
             v == [w EXCEPT ![id] = [fileid \in FileIds |-> IF fileid \in DOMAIN full
                                       THEN full[fileid].ones ELSE @[fileid]]]
         IN  /\ IsJob(job) /\ job.torrent = TorrentMsg(id)
             /\ IsDisk(v) /\ Grows(w, v) /\ Claimed(job, v)
<1> DEFINE bits == info.bitmap_map
           full == Full(bits)
           job == [info EXCEPT !.bitmap_map = full]
           here == [fileid \in FileIds |-> IF fileid \in DOMAIN full THEN full[fileid].ones ELSE w[id][fileid]]
           v == [w EXCEPT ![id] = here]
<1>1. info = [torrent |-> info.torrent, path |-> info.path, top |-> info.top, bitmap_map |-> bits]
      /\ Sized(bits)
  BY DEF IsJob
<1>2. /\ full = [fileid \in DOMAIN full |-> full[fileid]] /\ DOMAIN full = DOMAIN bits
      /\ \A fileid \in DOMAIN bits : full[fileid] = Bitmap(ChunksOf(fileid), 0 .. ChunksOf(fileid) - 1)
  BY DEF Full
<1> HIDE DEF full
<1>3. \A n \in Nat : /\ Bitmap(n, 0 .. n - 1) \in Bitmaps(n) /\ Bitmap(n, 0 .. n - 1).ones = 0 .. n - 1
  BY DEF Bitmaps, Bitmap
<1>4. \A fileid \in DOMAIN full : /\ fileid \in FileIds /\ full[fileid] \in Bitmaps(ChunksOf(fileid))
                                  /\ full[fileid].ones = 0 .. ChunksOf(fileid) - 1
                                  /\ full[fileid].ones \in SUBSET Nat
  BY <1>1, <1>2, <1>3 DEF Sized
<1>5. /\ job = [torrent |-> info.torrent, path |-> info.path, top |-> info.top, bitmap_map |-> full]
      /\ job.torrent = info.torrent /\ job.path = info.path /\ job.top = info.top /\ job.bitmap_map = full
  <2> DEFINE m == bits
  <2>1. info = [torrent |-> info.torrent, path |-> info.path, top |-> info.top, bitmap_map |-> m]
    BY <1>1
  <2> HIDE DEF m
  <2>2. job = [torrent |-> info.torrent, path |-> info.path, top |-> info.top, bitmap_map |-> full]
    BY <2>1
  <2> HIDE DEF job
  <2> QED BY <2>2
<1> HIDE DEF job
<1>6. Sized(full)
  BY <1>2, <1>4 DEF Sized
<1>7. IsJob(job)
  BY <1>5, <1>6 DEF IsJob
<1>8. w \in [TorrentIds -> [FileIds -> SUBSET Nat]]
      /\ \A d \in TorrentIds, f \in FileIds : w[d][f] \subseteq 0 .. ChunksOf(f) - 1
  BY DEF IsDisk
<1>9. /\ here \in [FileIds -> SUBSET Nat]
      /\ \A f \in FileIds : /\ here[f] \subseteq 0 .. ChunksOf(f) - 1 /\ w[id][f] \subseteq here[f]
                            /\ f \in DOMAIN full => here[f] = full[f].ones
  <2>1. /\ here = [fileid \in FileIds |-> here[fileid]]
        /\ \A f \in FileIds : /\ f \in DOMAIN full => here[f] = full[f].ones
                              /\ f \notin DOMAIN full => here[f] = w[id][f]
    OBVIOUS
  <2> HIDE DEF here
  <2>2. ASSUME NEW f \in FileIds
        PROVE  /\ here[f] \subseteq 0 .. ChunksOf(f) - 1 /\ w[id][f] \subseteq here[f]
               /\ here[f] \in SUBSET Nat
    <3>1. w[id][f] \subseteq 0 .. ChunksOf(f) - 1 /\ w[id][f] \in SUBSET Nat
      BY <1>8
    <3>2. CASE f \in DOMAIN full
      BY <1>4, <2>1, <3>1, <3>2
    <3>3. CASE f \notin DOMAIN full
      BY <2>1, <3>1, <3>3
    <3> QED BY <3>2, <3>3
  <2>3. here \in [FileIds -> SUBSET Nat]
    BY <2>1, <2>2
  <2> QED BY <2>1, <2>2, <2>3
<1>10. [w EXCEPT ![id] = [fileid \in FileIds |-> IF fileid \in DOMAIN full
                            THEN full[fileid].ones ELSE @[fileid]]] = v
  BY <1>8
<1> HIDE DEF here
<1>11. v \in [TorrentIds -> [FileIds -> SUBSET Nat]] /\ v[id] = here
       /\ \A d \in TorrentIds : d # id => v[d] = w[d]
  BY <1>8, <1>9
<1> HIDE DEF v
<1>12. IsDisk(v) /\ Grows(w, v)
  <2>1. \A d \in TorrentIds, f \in FileIds : v[d][f] \subseteq 0 .. ChunksOf(f) - 1 /\ w[d][f] \subseteq v[d][f]
    BY <1>8, <1>9, <1>11
  <2> QED BY <1>11, <2>1 DEF IsDisk, Grows
<1>13. Claimed(job, v)
  BY <1>4, <1>5, <1>9, <1>11 DEF Claimed
<1> QED BY <1>5, <1>7, <1>10, <1>12, <1>13 DEF full, bits, job
-----------------------------------------------------------------------------
(* The inductive invariant                                                 *)

(* The torrent file of every job is still its own.                         *)
AllOwn(js, t) == \A i \in DOMAIN js : LeadsTo(t, js[i].path) = Read(js[i].torrent)
(* No two entries lead to the same torrent ...                             *)
AllDistinct(es, t) ==
  \A a, b \in DOMAIN es :
    LeadsTo(t, es[a].TorrentPath).ok /\ LeadsTo(t, es[a].TorrentPath) = LeadsTo(t, es[b].TorrentPath)
      => a = b
(* ... and none to the torrent of a job.                                   *)
NoneHere(es, js, t) ==
  \A k \in DOMAIN es, i \in DOMAIN js :
    LeadsTo(t, es[k].TorrentPath).ok => LeadsTo(t, es[k].TorrentPath).msg # js[i].torrent
(* The first entries have been reloaded, rest is what is left of them.     *)
Reloaded(es, rest, js, t) ==
  \E d \in 0 .. Len(es) :
    /\ DOMAIN rest = 1 .. Len(es) - d
    /\ \A k \in DOMAIN rest : rest[k] = es[d + k]
    /\ \A i \in 1 .. d : LeadsTo(t, es[i].TorrentPath).ok =>
         \E k \in DOMAIN js : js[k] = ReloadedJob(LeadsTo(t, es[i].TorrentPath).msg, es[i])
(* A stream that is the start of what these entries are written as.        *)
StartOf(stream, es) ==
  \E n \in 0 .. Len(HistoryStream(es)) : stream = SubSeq(HistoryStream(es), 1, n)

\* Jobs that can all be saved.
AllJobs(js) == IsSeq(js) /\ \A i \in DOMAIN js : IsJob(js[i]) /\ HasAll(js[i])

\* What is on disk, besides the history, was written by the program.
FilesInv ==
  /\ IsDisk(written)
  /\ TorrentsOK(torrents)
  /\ making # NotMaking => making[2] \in TorrentIds

\* The jobs claim no more than is on disk; a program that is down has none.
JobsInv ==
  /\ JobsOK(jobs, written)
  /\ pc = "down" => jobs = <<>>

\* The history is the start of what was built last; what was built, and what is
\* left to be reloaded, claims no more than is on disk.  While it is being saved
\* the file is empty.
HistoryInv ==
  /\ EntriesOK(built, written)
  /\ EntriesOK(reloading, written)
  /\ StartOf(history, built)
  /\ pc \in {"saving", "hung"} => history = Nothing /\ ~orderly

\* A program that starts, or has failed to, holds jobs whose torrent files are
\* their own; so what a failed start leaves has no two entries of one torrent.
FailInv ==
  /\ failed \in BOOLEAN
  /\ pc = "up" => ~failed
  /\ pc \in {"reloading"} \cup StartFailed \/ failed => AllOwn(jobs, torrents)
  /\ failed => pc # "duplicate" /\ AllDistinct(KeptOf(history), torrents)
  /\ failed /\ pc = "reloading" => AllDistinct(reloading, torrents) /\ NoneHere(reloading, jobs, torrents)

\* After an orderly end, the history is that of the jobs saved, and the entries
\* reloaded so far have become jobs.
OrderInv ==
  orderly =>
    /\ AllJobs(saved) /\ built = Saved(saved) /\ KeptOf(history) = built
    /\ pc = "reloading" => Reloaded(built, reloading, jobs, torrents)

\* The inductive invariant.
IInv == FilesInv /\ JobsInv /\ HistoryInv /\ FailInv /\ OrderInv

\* A job more whose torrent file is its own.
LEMMA OwnAppend ==
  ASSUME NEW js, IsSeq(js), NEW t, AllOwn(js, t), NEW job, LeadsTo(t, job.path) = Read(job.torrent)
  PROVE  AllOwn(Append(js, job), t)
<1> DEFINE r == Append(js, job)
<1>1. /\ Len(js) \in Nat /\ DOMAIN js = 1 .. Len(js) /\ DOMAIN r = 1 .. Len(js) + 1
      /\ r[Len(js) + 1] = job /\ \A i \in DOMAIN js : r[i] = js[i]
  BY SeqAppend
<1> HIDE DEF r
<1>2. \A i \in DOMAIN r : i \in DOMAIN js \/ i = Len(js) + 1
  BY <1>1
<1>3. AllOwn(r, t)
  BY <1>1, <1>2 DEF AllOwn
<1> QED BY <1>3 DEF r

\* A job changed that keeps its torrent and its torrent file.
LEMMA OwnUpdate ==
  ASSUME NEW js, IsSeq(js), NEW t, AllOwn(js, t), NEW i \in DOMAIN js, NEW job,
         job.torrent = js[i].torrent, job.path = js[i].path
  PROVE  AllOwn([js EXCEPT ![i] = job], t)
<1> DEFINE r == [js EXCEPT ![i] = job]
<1>1. DOMAIN r = DOMAIN js /\ r[i] = job /\ \A k \in DOMAIN js : k # i => r[k] = js[k]
  BY SeqUpdate
<1> HIDE DEF r
<1>2. AllOwn(r, t)
  BY <1>1 DEF AllOwn
<1> QED BY <1>2 DEF r

\* Without jobs, no entry leads to the torrent of a job.
LEMMA NoneOfNoJobs == ASSUME NEW es, NEW t PROVE NoneHere(es, <<>>, t) /\ AllOwn(<<>>, t)
BY DEF NoneHere, AllOwn

\* Entries that lead to different torrents, without the first.
LEMMA DistinctTail ==
  ASSUME NEW es, IsSeq(es), es # <<>>, NEW t, AllDistinct(es, t)
  PROVE  AllDistinct(Tail(es), t)
<1> DEFINE r == Tail(es)
<1>1. /\ Len(es) \in Nat \ {0} /\ DOMAIN es = 1 .. Len(es) /\ DOMAIN r = 1 .. Len(es) - 1
      /\ \A i \in DOMAIN r : r[i] = es[i + 1] /\ i + 1 \in DOMAIN es
  BY SeqTail
<1> HIDE DEF r
<1>2. \A a, b \in DOMAIN r : a + 1 = b + 1 => a = b
  BY <1>1
<1>3. AllDistinct(r, t)
  BY <1>1, <1>2 DEF AllDistinct
<1> QED BY <1>3 DEF r

\* Entries that lead to no torrent of a job, without the first.
LEMMA NoneTail ==
  ASSUME NEW es, IsSeq(es), es # <<>>, NEW t, NEW js, NoneHere(es, js, t)
  PROVE  NoneHere(Tail(es), js, t)
<1> DEFINE r == Tail(es)
<1>1. \A i \in DOMAIN r : r[i] = es[i + 1] /\ i + 1 \in DOMAIN es
  BY SeqTail
<1> HIDE DEF r
<1>2. NoneHere(r, js, t)
  BY <1>1 DEF NoneHere
<1> QED BY <1>2 DEF r

(* The first entry becomes a job: the others do not lead to its torrent.   *)
LEMMA NoneAppend ==
  ASSUME NEW es, IsSeq(es), es # <<>>, NEW t, TorrentsOK(t), NEW js, IsSeq(js),
         NoneHere(es, js, t), AllDistinct(es, t), NEW job,
         LeadsTo(t, Head(es).TorrentPath) = Read(job.torrent)
  PROVE  NoneHere(Tail(es), Append(js, job), t)
<1> DEFINE r == Tail(es)
           more == Append(js, job)
<1>1. /\ Len(es) \in Nat \ {0} /\ DOMAIN es = 1 .. Len(es) /\ DOMAIN r = 1 .. Len(es) - 1
      /\ Head(es) = es[1] /\ \A i \in DOMAIN r : r[i] = es[i + 1] /\ i + 1 \in DOMAIN es
  BY SeqTail
<1>2. /\ Len(js) \in Nat /\ DOMAIN js = 1 .. Len(js) /\ DOMAIN more = 1 .. Len(js) + 1
      /\ more[Len(js) + 1] = job /\ \A i \in DOMAIN js : more[i] = js[i]
  BY SeqAppend
<1> HIDE DEF r, more
<1>3. \A i \in DOMAIN more : i \in DOMAIN js \/ i = Len(js) + 1
  BY <1>2
<1>4. \A k \in DOMAIN r : LeadsTo(t, r[k].TorrentPath).ok => LeadsTo(t, r[k].TorrentPath).msg # job.torrent
  <2> SUFFICES ASSUME NEW k \in DOMAIN r, LeadsTo(t, r[k].TorrentPath).ok,
                      LeadsTo(t, r[k].TorrentPath).msg = job.torrent
               PROVE  FALSE
    OBVIOUS
  <2>1. LeadsTo(t, r[k].TorrentPath) = Read(job.torrent)
    <3>1. PICK id \in TorrentIds : /\ LeadsTo(t, r[k].TorrentPath) = Read(TorrentMsg(id))
                                   /\ LeadsTo(t, r[k].TorrentPath).msg = TorrentMsg(id)
      BY LeadsFacts
    <3> QED BY <3>1
  <2>2. LeadsTo(t, es[1].TorrentPath).ok /\ 1 \in DOMAIN es /\ k + 1 \in DOMAIN es /\ r[k] = es[k + 1]
    <3>1. LeadsTo(t, es[1].TorrentPath) = Read(job.torrent)
      BY <1>1
    <3>2. LeadsTo(t, es[1].TorrentPath).ok
      BY <3>1, ReadFacts
    <3>3. 1 \in DOMAIN es
      BY <1>1
    <3> QED BY <1>1, <3>2, <3>3
  <2>3. 1 = k + 1
    BY <1>1, <2>1, <2>2 DEF AllDistinct
  <2> QED BY <1>1, <2>3
<1>5. \A k \in DOMAIN r, i \in DOMAIN js :
        LeadsTo(t, r[k].TorrentPath).ok => LeadsTo(t, r[k].TorrentPath).msg # js[i].torrent
  BY <1>1 DEF NoneHere
<1>6. NoneHere(r, more, t)
  BY <1>2, <1>3, <1>4, <1>5 DEF NoneHere
<1> QED BY <1>6 DEF r, more

\* Before the first entry is reloaded, all are left.
LEMMA NothingReloaded ==
  ASSUME NEW es, IsSeq(es), NEW js, NEW t
  PROVE  Reloaded(es, es, js, t)
<1>1. Len(es) \in Nat /\ DOMAIN es = 1 .. Len(es)
  BY SeqFacts
<1>2. \A k \in DOMAIN es : es[k] = es[0 + k]
  BY <1>1
<1>3. 0 \in 0 .. Len(es) /\ DOMAIN es = 1 .. Len(es) - 0 /\ 1 .. 0 = {}
  BY <1>1
<1> QED BY <1>2, <1>3 DEF Reloaded

(* One entry more has been reloaded, into a job if it leads to a torrent.  *)
LEMMA ReloadedTail ==
  ASSUME NEW es, IsSeq(es), NEW rest, IsSeq(rest), rest # <<>>, NEW js, NEW t,
         Reloaded(es, rest, js, t), NEW more,
         \A k \in DOMAIN js : \E l \in DOMAIN more : more[l] = js[k],
         LeadsTo(t, Head(rest).TorrentPath).ok =>
           \E l \in DOMAIN more :
             more[l] = ReloadedJob(LeadsTo(t, Head(rest).TorrentPath).msg, Head(rest))
  PROVE  Reloaded(es, Tail(rest), more, t)
<1> DEFINE r == Tail(rest)
<1>1. /\ Len(rest) \in Nat \ {0} /\ DOMAIN rest = 1 .. Len(rest) /\ DOMAIN r = 1 .. Len(rest) - 1
      /\ Head(rest) = rest[1] /\ \A i \in DOMAIN r : r[i] = rest[i + 1] /\ i + 1 \in DOMAIN rest
  BY SeqTail
<1>2. Len(es) \in Nat
  BY SeqFacts
<1>3. PICK d \in 0 .. Len(es) :
        /\ DOMAIN rest = 1 .. Len(es) - d
        /\ \A k \in DOMAIN rest : rest[k] = es[d + k]
        /\ \A i \in 1 .. d : LeadsTo(t, es[i].TorrentPath).ok =>
             \E k \in DOMAIN js : js[k] = ReloadedJob(LeadsTo(t, es[i].TorrentPath).msg, es[i])
  BY DEF Reloaded
<1> HIDE DEF r
<1> DEFINE e == d + 1
<1>4. /\ Len(rest) = Len(es) - d /\ e \in 0 .. Len(es) /\ DOMAIN r = 1 .. Len(es) - e
      /\ rest[1] = es[e] /\ \A k \in DOMAIN r : d + (k + 1) = e + k
  BY <1>1, <1>2, <1>3
<1>5. \A k \in DOMAIN r : r[k] = es[e + k]
  BY <1>1, <1>3, <1>4
<1>6. ASSUME NEW i \in 1 .. e, LeadsTo(t, es[i].TorrentPath).ok
      PROVE  \E k \in DOMAIN more : more[k] = ReloadedJob(LeadsTo(t, es[i].TorrentPath).msg, es[i])
  <2>1. CASE i = e
    BY <1>1, <1>4, <1>6, <2>1
  <2>2. CASE i # e
    <3>1. i \in 1 .. d
      BY <1>2, <2>2
    <3>2. PICK k \in DOMAIN js : js[k] = ReloadedJob(LeadsTo(t, es[i].TorrentPath).msg, es[i])
      BY <1>3, <1>6, <3>1
    <3> QED BY <3>2
  <2> QED BY <2>1, <2>2
<1> HIDE DEF e
<1>7. Reloaded(es, r, more, t)
  BY <1>4, <1>5, <1>6 DEF Reloaded
<1> QED BY <1>7 DEF r

(* The jobs as they are saved, in whole or in part, lead to as many        *)
(* torrents.                                                               *)
LEMMA DistinctSaved ==
  ASSUME NEW js, NEW w, NEW t, JobsOK(js, w), AllOwn(js, t),
         \A i \in DOMAIN js : HasAll(js[i]),
         NEW j \in 0 .. Len(Saved(js))
  PROVE  AllDistinct(SubSeq(Saved(js), 1, j), t)
<1> DEFINE es == Saved(js)
           part == SubSeq(es, 1, j)
<1>1. EntriesOK(es, w) /\ DOMAIN es = DOMAIN js /\ \A i \in DOMAIN js : es[i].TorrentPath = js[i].path
  BY EntriesSaved
<1> HIDE DEF es
<1>2. j \in 0 .. Len(es)
  BY DEF es
<1>3. /\ DOMAIN part = 1 .. j /\ Len(es) \in Nat /\ DOMAIN es = 1 .. Len(es)
      /\ \A i \in 1 .. j : part[i] = es[i]
  BY <1>1, <1>2, EntriesPart
<1> HIDE DEF part
<1>4. \A i \in DOMAIN part : i \in DOMAIN js /\ LeadsTo(t, part[i].TorrentPath) = Read(js[i].torrent)
  BY <1>1, <1>2, <1>3 DEF AllOwn
<1>5. AllDistinct(part, t)
  <2> SUFFICES ASSUME NEW a \in DOMAIN part, NEW b \in DOMAIN part,
                      LeadsTo(t, part[a].TorrentPath) = LeadsTo(t, part[b].TorrentPath)
               PROVE  a = b
    BY DEF AllDistinct
  <2>1. Read(js[a].torrent) = Read(js[b].torrent)
    BY <1>4
  <2>2. js[a].torrent = js[b].torrent
    BY <2>1, ReadFacts
  <2> QED BY <1>4, <2>2 DEF JobsOK
<1> QED BY <1>5 DEF part, es

\* No entries lead to different torrents.
LEMMA NoneDistinct == ASSUME NEW t PROVE AllDistinct(<<>>, t)
BY DEF AllDistinct
-----------------------------------------------------------------------------
(* The steps of a program that is up                                       *)

\* What is on disk stays when nothing is written.
LEMMA SameDisk == ASSUME NEW w PROVE Grows(w, w)
BY DEF Grows

\* ParseTorrent reads what a name leads to.
LEMMA SameLeads == ASSUME NEW path PROVE ParseTorrent(path) = LeadsTo(torrents, path)
BY DEF ParseTorrent, LeadsTo

(* A step of the running program, which touches neither the history nor    *)
(* what is known of it, keeps the invariant if it keeps that of the files  *)
(* and jobs.                                                               *)
LEMMA RunningStep ==
  ASSUME IInv, pc = "up", UNCHANGED <<pc, history, reloading, ghosts>>,
         FilesInv', Grows(written, written'), JobsOK(jobs', written')
  PROVE  IInv'
<1>1. pc' = pc /\ history' = history /\ reloading' = reloading /\ built' = built /\ saved' = saved
      /\ orderly' = orderly /\ failed' = failed
  BY DEF ghosts
<1>2. EntriesOK(built, written') /\ EntriesOK(reloading, written')
  BY EntriesKeep DEF IInv, HistoryInv
<1>3. JobsInv'
  BY <1>1 DEF JobsInv
<1>4. HistoryInv'
  BY <1>1, <1>2 DEF IInv, HistoryInv
<1>5. FailInv'
  BY <1>1 DEF IInv, FailInv, StartFailed
<1>6. OrderInv'
  BY <1>1 DEF IInv, OrderInv
<1> QED BY <1>3, <1>4, <1>5, <1>6 DEF IInv

\* MakeTorrent opens a torrent file, and empties one of that name.
LEMMA MakeBeginsStep ==
  ASSUME IInv, NEW path, NEW id \in TorrentIds, MakeBegins(path, id)
  PROVE  IInv'
<1>1. pc = "up" /\ UNCHANGED <<pc, history, reloading, ghosts>> /\ jobs' = jobs /\ written' = written
      /\ making' = <<path, id>>
      /\ torrents' = Over([name \in {path} |-> Nothing], torrents)
  BY DEF MakeBegins, Commands, Write
<1>2. TorrentsOK(torrents')
  BY <1>1, TorrentsWrite DEF IInv, FilesInv
<1>3. making'[2] = id
  BY <1>1
<1>4. FilesInv'
  BY <1>1, <1>2, <1>3 DEF IInv, FilesInv
<1>5. Grows(written, written') /\ JobsOK(jobs', written')
  BY <1>1, SameDisk DEF IInv, JobsInv
<1> QED BY <1>1, <1>4, <1>5, RunningStep

\* A torrent is stored under the name of its resource, over what was there.
LEMMA DownloadTorrentStep ==
  ASSUME IInv, NEW path, NEW id \in TorrentIds, DownloadTorrent(path, id)
  PROVE  IInv'
<1>1. pc = "up" /\ UNCHANGED <<pc, history, reloading, ghosts>> /\ jobs' = jobs /\ written' = written
      /\ making' = making
      /\ torrents' = Over([name \in {path} |-> Written(id)], torrents)
  BY DEF DownloadTorrent, Commands, Write
<1>2. TorrentsOK(torrents')
  BY <1>1, TorrentsWrite DEF IInv, FilesInv
<1>3. FilesInv'
  BY <1>1, <1>2 DEF IInv, FilesInv
<1>4. Grows(written, written') /\ JobsOK(jobs', written')
  BY <1>1, SameDisk DEF IInv, JobsInv
<1> QED BY <1>1, <1>3, <1>4, RunningStep

\* The user stops the making of a torrent: the file is removed.
LEMMA MakeStoppedStep ==
  ASSUME IInv, MakeStopped
  PROVE  IInv'
<1>1. pc = "up" /\ UNCHANGED <<pc, history, reloading, ghosts>> /\ jobs' = jobs /\ written' = written
      /\ making' = NotMaking
      /\ torrents' = [path \in DOMAIN torrents \ {making[1]} |-> torrents[path]]
  BY DEF MakeStopped
<1>2. TorrentsOK(torrents')
  BY <1>1, TorrentsRemove DEF IInv, FilesInv
<1>3. FilesInv'
  BY <1>1, <1>2 DEF IInv, FilesInv
<1>4. Grows(written, written') /\ JobsOK(jobs', written')
  BY <1>1, SameDisk DEF IInv, JobsInv
<1> QED BY <1>1, <1>3, <1>4, RunningStep

(* A torrent that no job has is not that of any job.                       *)
LEMMA NotOfThese ==
  ASSUME NEW id \in TorrentIds, ~HasThisTorrent(id)
  PROVE  \A i \in DOMAIN jobs : jobs[i].torrent # TorrentMsg(id)
<1>1. TorrentMsg(id).TorrentId = id
  BY TorrentFacts
<1> QED BY <1>1 DEF HasThisTorrent

\* A torrent is made and, unless a job has it, becomes a job.
LEMMA MakeEndsStep ==
  ASSUME IInv, MakeEnds
  PROVE  IInv'
<1> DEFINE path == making[1]
           id == making[2]
           info == JobInfo(TorrentMsg(id), path, id, {file.Filename : file \in FilesOf(id)})
           full == Full(info.bitmap_map)
           job == [info EXCEPT !.bitmap_map = full]
           v == [written EXCEPT ![id] = [fileid \in FileIds |-> IF fileid \in DOMAIN full
                                           THEN full[fileid].ones ELSE @[fileid]]]
<1>1. pc = "up" /\ UNCHANGED <<pc, history, reloading, ghosts>> /\ making' = NotMaking
      /\ making # NotMaking
      /\ torrents' = Over([name \in {path} |-> Written(id)], torrents)
  BY DEF MakeEnds, Write
<1>2. \/ HasThisTorrent(id) /\ jobs' = jobs /\ written' = written
      \/ ~HasThisTorrent(id) /\ jobs' = Append(jobs, job) /\ written' = v
  BY DEF MakeEnds, Full
<1>3. id \in TorrentIds
  BY <1>1 DEF IInv, FilesInv
<1>4. TorrentsOK(torrents')
  BY <1>1, <1>3, TorrentsWrite DEF IInv, FilesInv
<1>5. IsNewJob(info, id, path, id)
  <2> HIDE DEF id, path
  <2> QED BY <1>3, NewJob
<1> HIDE DEF info, id, path
<1>7. IsJob(job) /\ job.torrent = TorrentMsg(id) /\ IsDisk(v) /\ Grows(written, v) /\ Claimed(job, v)
  BY <1>3, <1>5, MadeJob DEF IInv, FilesInv, IsNewJob
<1> HIDE DEF job, v
<1>8. IsDisk(written') /\ Grows(written, written')
  BY <1>2, <1>7, SameDisk DEF IInv, FilesInv
<1>9. JobsOK(jobs', written')
  <2>1. JobsOK(jobs, written')
    BY <1>8, JobsKeep DEF IInv, JobsInv
  <2>2. CASE HasThisTorrent(id)
    BY <1>2, <2>1, <2>2
  <2>3. CASE ~HasThisTorrent(id)
    <3>1. jobs' = Append(jobs, job) /\ written' = v
      BY <1>2, <2>3
    <3>2. \A i \in DOMAIN jobs : jobs[i].torrent # job.torrent
      BY <1>3, <1>7, <2>3, NotOfThese
    <3>3. IsJob(job) /\ Claimed(job, written')
      BY <1>7, <3>1
    <3> QED BY <2>1, <3>1, <3>2, <3>3, JobsAppend
  <2> QED BY <2>2, <2>3
<1>10. FilesInv'
  BY <1>1, <1>4, <1>8 DEF FilesInv
<1> QED BY <1>1, <1>8, <1>9, <1>10, RunningStep

\* A torrent becomes a job.
LEMMA AddNewDownloadJobStep ==
  ASSUME IInv, NEW path, AddNewDownloadJob(path)
  PROVE  IInv'
<1> DEFINE torrent == ParseTorrent(path)
<1>1. pc = "up" /\ UNCHANGED <<pc, history, reloading, ghosts>> /\ torrents' = torrents
      /\ written' = written /\ making' = making
      /\ torrent.ok /\ ~HasThisTorrent(torrent.msg.TorrentId)
  BY DEF AddNewDownloadJob, Commands
<1>2. PICK needs : jobs' = Append(jobs, JobInfo(torrent.msg, path, torrent.msg.TorrentId, needs))
  BY DEF AddNewDownloadJob
<1>3. PICK id \in TorrentIds : torrent.msg = TorrentMsg(id) /\ torrent.msg.TorrentId = id
  BY <1>1, SameLeads, LeadsFacts DEF IInv, FilesInv
<1> HIDE DEF torrent
<1> DEFINE job == JobInfo(TorrentMsg(id), path, id, needs)
<1>5. IsNewJob(job, id, path, id)
  BY NewJob
<1>6. jobs' = Append(jobs, job)
  BY <1>2, <1>3
<1> HIDE DEF job
<1>4. IsJob(job) /\ job.torrent = TorrentMsg(id)
  BY <1>5 DEF IsNewJob
<1>7. Claimed(job, written)
  BY <1>5 DEF Claimed, IsNewJob
<1>8. \A i \in DOMAIN jobs : jobs[i].torrent # job.torrent
  BY <1>1, <1>3, <1>4, NotOfThese
<1>9. JobsOK(Append(jobs, job), written)
  BY <1>4, <1>7, <1>8, JobsAppend DEF IInv, JobsInv
<1>10. FilesInv' /\ Grows(written, written') /\ JobsOK(jobs', written')
  BY <1>1, <1>6, <1>9, SameDisk DEF IInv, FilesInv
<1> QED BY <1>1, <1>10, RunningStep

\* A job is removed.
LEMMA RemoveJobStep ==
  ASSUME IInv, NEW i \in DOMAIN jobs, RemoveJob(i)
  PROVE  IInv'
<1>1. pc = "up" /\ UNCHANGED <<pc, history, reloading, ghosts>> /\ torrents' = torrents
      /\ written' = written /\ making' = making /\ jobs' = RemoveAt(jobs, i)
  BY DEF RemoveJob, Commands
<1>2. JobsOK(RemoveAt(jobs, i), written)
  BY JobsRemove DEF IInv, JobsInv
<1>3. FilesInv' /\ Grows(written, written') /\ JobsOK(jobs', written')
  BY <1>1, <1>2, SameDisk DEF IInv, FilesInv
<1> QED BY <1>1, <1>3, RunningStep
-----------------------------------------------------------------------------
(* Reloading                                                               *)

\* Before the first start there is nothing.
LEMMA InitIInv == ASSUME Init PROVE IInv
<1>1. /\ pc = "down" /\ history = <<>> /\ torrents = <<>> /\ jobs = <<>> /\ reloading = <<>>
      /\ making = NotMaking /\ built = <<>> /\ saved = <<>> /\ orderly = TRUE /\ failed = FALSE
      /\ written = [id \in TorrentIds |-> [fileid \in FileIds |-> {}]]
  BY DEF Init, Nothing
<1>2. FilesInv
  BY <1>1 DEF FilesInv, IsDisk, TorrentsOK
<1>3. JobsOK(<<>>, written) /\ EntriesOK(<<>>, written)
  BY NoJobs
<1>4. JobsInv
  BY <1>1, <1>3 DEF JobsInv
<1>5. StartOf(<<>>, <<>>)
  <2>1. HistoryStream(<<>>) = <<>> /\ SubSeq(<<>>, 1, 0) = <<>> /\ Len(<<>>) = 0
    BY NoEntries
  <2>2. 0 \in 0 .. Len(HistoryStream(<<>>)) /\ SubSeq(HistoryStream(<<>>), 1, 0) = <<>>
    BY <2>1
  <2> QED BY <2>2 DEF StartOf
<1>6. HistoryInv
  BY <1>1, <1>3, <1>5 DEF HistoryInv
<1>7. FailInv
  BY <1>1 DEF FailInv, StartFailed
<1>8. AllJobs(<<>>) /\ Saved(<<>>) = <<>>
  <2>1. IsSeq(<<>>)
    BY <1>3 DEF JobsOK
  <2> QED BY <2>1 DEF AllJobs, Saved
<1>9. OrderInv
  BY <1>1, <1>8, NoEntries DEF OrderInv
<1> QED BY <1>2, <1>4, <1>6, <1>7, <1>9 DEF IInv

(* What a start has of the history is a part of what was saved last.       *)
LEMMA KeptPart ==
  ASSUME NEW es, NEW w, EntriesOK(es, w), NEW stream, StartOf(stream, es)
  PROVE  \E j \in 0 .. Len(es) : KeptOf(stream) = SubSeq(es, 1, j) /\ EntriesOK(KeptOf(stream), w)
<1>1. PICK n \in 0 .. Len(HistoryStream(es)) : stream = SubSeq(HistoryStream(es), 1, n)
  BY DEF StartOf
<1>2. IsHistory(es)
  BY DEF EntriesOK
<1>3. PICK j \in 0 .. Len(es) : KeptOf(SubSeq(HistoryStream(es), 1, n)) = SubSeq(es, 1, j)
  BY <1>2, KeptCut
<1>4. EntriesOK(SubSeq(es, 1, j), w)
  BY EntriesPart
<1> QED BY <1>1, <1>3, <1>4

\* A start reads what it can of the history.
LEMMA StartStep == ASSUME IInv, Start PROVE IInv'
<1>1. /\ pc = "down" /\ pc' = "reloading" /\ reloading' = KeptOf(history)
      /\ history' = history /\ torrents' = torrents /\ written' = written
      /\ jobs' = jobs /\ making' = making
      /\ built' = built /\ saved' = saved /\ orderly' = orderly /\ failed' = failed
  BY DEF Start, KeptOf, disk, ghosts
<1>2. jobs = <<>>
  BY <1>1 DEF IInv, JobsInv
<1>3. FilesInv' /\ JobsInv'
  BY <1>1 DEF IInv, FilesInv, JobsInv
<1>4. EntriesOK(built, written) /\ StartOf(history, built)
  BY DEF IInv, HistoryInv
<1>5. EntriesOK(KeptOf(history), written)
  BY <1>4, KeptPart
<1>6. HistoryInv'
  BY <1>1, <1>4, <1>5 DEF HistoryInv
<1>7. FailInv'
  BY <1>1, <1>2, NoneOfNoJobs DEF IInv, FailInv
<1>8. OrderInv'
  <2>1. CASE ~orderly
    BY <1>1, <2>1 DEF OrderInv
  <2>2. CASE orderly
    <3>1. AllJobs(saved) /\ built = Saved(saved) /\ KeptOf(history) = built
      BY <2>2 DEF IInv, OrderInv
    <3>2. IsSeq(built)
      BY <1>4 DEF EntriesOK, IsHistory
    <3>3. Reloaded(built, built, jobs, torrents)
      BY <3>2, NothingReloaded
    <3> QED BY <1>1, <3>1, <3>3 DEF OrderInv
  <2> QED BY <2>1, <2>2
<1> QED BY <1>3, <1>6, <1>7, <1>8 DEF IInv

(* An entry whose torrent cannot be read.                                  *)
LEMMA SkipStep ==
  ASSUME IInv, pc = "reloading", reloading # <<>>, UNCHANGED <<pc, jobs, disk, making, ghosts>>,
         ~LeadsTo(torrents, Head(reloading).TorrentPath).ok, reloading' = Tail(reloading)
  PROVE  IInv'
<1>1. /\ pc' = pc /\ jobs' = jobs /\ making' = making
      /\ history' = history /\ torrents' = torrents /\ written' = written
      /\ built' = built /\ saved' = saved /\ orderly' = orderly /\ failed' = failed
  BY DEF disk, ghosts
<1>2. FilesInv' /\ JobsInv'
  BY <1>1 DEF IInv, FilesInv, JobsInv
<1>3. EntriesOK(reloading, written) /\ IsSeq(reloading)
  BY DEF IInv, HistoryInv, EntriesOK, IsHistory
<1>4. EntriesOK(Tail(reloading), written)
  BY <1>3, EntriesTail
<1>5. HistoryInv'
  BY <1>1, <1>4 DEF IInv, HistoryInv
<1>6. FailInv'
  <2>1. failed => /\ AllDistinct(Tail(reloading), torrents)
                  /\ NoneHere(Tail(reloading), jobs, torrents)
    BY <1>3, DistinctTail, NoneTail DEF IInv, FailInv
  <2> QED BY <1>1, <2>1 DEF IInv, FailInv
<1>7. OrderInv'
  <2>1. CASE ~orderly
    BY <1>1, <2>1 DEF OrderInv
  <2>2. CASE orderly
    <3>1. AllJobs(saved) /\ built = Saved(saved) /\ KeptOf(history) = built
          /\ Reloaded(built, reloading, jobs, torrents)
      BY <2>2 DEF IInv, OrderInv
    <3>2. IsSeq(built)
      BY DEF IInv, HistoryInv, EntriesOK, IsHistory
    <3>3. Reloaded(built, Tail(reloading), jobs, torrents)
      BY <1>3, <3>1, <3>2, ReloadedTail
    <3> QED BY <1>1, <3>1, <3>3 DEF OrderInv
  <2> QED BY <2>1, <2>2
<1> QED BY <1>2, <1>5, <1>6, <1>7 DEF IInv

(* Two entries that lead to the same torrent: not after a failed start.    *)
LEMMA DuplicateStep ==
  ASSUME IInv, pc = "reloading", reloading # <<>>, UNCHANGED <<jobs, disk, making, ghosts>>,
         LeadsTo(torrents, Head(reloading).TorrentPath).ok,
         HasThisTorrent(LeadsTo(torrents, Head(reloading).TorrentPath).msg.TorrentId),
         pc' = "duplicate", reloading' = <<>>
  PROVE  IInv'
<1> DEFINE torrent == LeadsTo(torrents, Head(reloading).TorrentPath)
<1>1. /\ jobs' = jobs /\ making' = making
      /\ history' = history /\ torrents' = torrents /\ written' = written
      /\ built' = built /\ saved' = saved /\ orderly' = orderly /\ failed' = failed
  BY DEF disk, ghosts
<1>2. FilesInv' /\ JobsInv'
  BY <1>1 DEF IInv, FilesInv, JobsInv
<1>3. HistoryInv'
  <2>1. EntriesOK(<<>>, written)
    BY NoJobs
  <2> QED BY <1>1, <2>1 DEF IInv, HistoryInv
<1>4. PICK i \in DOMAIN jobs : jobs[i].torrent.TorrentId = torrent.msg.TorrentId
  BY DEF HasThisTorrent
<1>5. jobs[i].torrent = torrent.msg
  <2>1. PICK id \in TorrentIds : torrent.msg = TorrentMsg(id) /\ torrent.msg.TorrentId = id
    BY LeadsFacts DEF IInv, FilesInv
  <2>2. PICK other \in TorrentIds : jobs[i].torrent = TorrentMsg(other)
    BY DEF IInv, JobsInv, JobsOK, IsJob
  <2>3. TorrentMsg(other).TorrentId = other
    BY TorrentFacts
  <2> QED BY <1>4, <2>1, <2>2, <2>3
<1>6. ~failed
  <2> SUFFICES ASSUME failed PROVE FALSE
    OBVIOUS
  <2>1. NoneHere(reloading, jobs, torrents)
    BY DEF IInv, FailInv
  <2>2. IsSeq(reloading)
    BY DEF IInv, HistoryInv, EntriesOK, IsHistory
  <2>3. 1 \in DOMAIN reloading /\ Head(reloading) = reloading[1]
    BY <2>2, SeqTail
  <2> QED BY <1>5, <2>1, <2>3 DEF NoneHere
<1>7. FailInv'
  BY <1>1, <1>6 DEF IInv, FailInv, StartFailed
<1>8. OrderInv'
  BY <1>1 DEF IInv, OrderInv
<1> QED BY <1>2, <1>3, <1>7, <1>8 DEF IInv

(* A job is made of an entry, for which there may be no thread.            *)
LEMMA ReloadStep ==
  ASSUME IInv, pc = "reloading", reloading # <<>>, UNCHANGED <<disk, making, ghosts>>,
         LeadsTo(torrents, Head(reloading).TorrentPath).ok,
         ~HasThisTorrent(LeadsTo(torrents, Head(reloading).TorrentPath).msg.TorrentId),
         jobs' = Append(jobs, ReloadedJob(LeadsTo(torrents, Head(reloading).TorrentPath).msg, Head(reloading))),
         \/ reloading' = Tail(reloading) /\ pc' = pc
         \/ pc' = "no_thread" /\ reloading' = <<>>
  PROVE  IInv'
<1> DEFINE entry == Head(reloading)
           torrent == LeadsTo(torrents, entry.TorrentPath)
           job == ReloadedJob(torrent.msg, entry)
<1>1. /\ making' = making /\ history' = history /\ torrents' = torrents /\ written' = written
      /\ built' = built /\ saved' = saved /\ orderly' = orderly /\ failed' = failed
  BY DEF disk, ghosts
<1>2. PICK id \in TorrentIds : torrent = Read(TorrentMsg(id)) /\ torrent.msg = TorrentMsg(id)
                               /\ torrent.msg.TorrentId = id
  BY LeadsFacts DEF IInv, FilesInv
<1>3. EntriesOK(reloading, written) /\ IsSeq(reloading)
  BY DEF IInv, HistoryInv, EntriesOK, IsHistory
<1>4. EntriesOK(Tail(reloading), written) /\ SizedEntry(entry) /\ Backed(entry, written)
  BY <1>3, EntriesTail
<1>5. JobsOK(jobs, written)
  BY DEF IInv, JobsInv
<1> HIDE DEF entry
<1>6. /\ IsJob(job) /\ job.torrent = TorrentMsg(id)
      /\ job.path = entry.TorrentPath /\ job.top = entry.LocalTopPath
      /\ \A fileid \in DOMAIN job.bitmap_map :
           \/ job.bitmap_map[fileid].ones = {}
           \/ \E f \in DOMAIN entry.File : /\ entry.File[f].Fileid = fileid
                                           /\ job.bitmap_map[fileid] = reloaded_bitmap(entry.File[f])
  BY <1>2, <1>4, ReloadedJobFacts
<1>7. jobs' = Append(jobs, job)
  BY DEF entry
<1>8. ~HasThisTorrent(id)
  BY <1>2 DEF entry
<1> HIDE DEF torrent, job
<1>9. Claimed(job, written)
  BY <1>4, <1>6 DEF Claimed, Backed
<1>10. JobsOK(jobs', written')
  <2>1. \A i \in DOMAIN jobs : jobs[i].torrent # job.torrent
    BY <1>6, <1>8, NotOfThese
  <2> QED BY <1>1, <1>5, <1>6, <1>7, <1>9, <2>1, JobsAppend
<1>11. FilesInv' /\ JobsInv'
  BY <1>1, <1>10 DEF IInv, FilesInv, JobsInv
<1>12. HistoryInv'
  <2>1. EntriesOK(<<>>, written)
    BY NoJobs
  <2> QED BY <1>1, <1>4, <2>1 DEF IInv, HistoryInv
<1>13. LeadsTo(torrents, entry.TorrentPath) = Read(job.torrent) /\ IsSeq(jobs)
  BY <1>2, <1>5, <1>6 DEF torrent, JobsOK
<1>14. AllOwn(jobs', torrents)
  <2>1. AllOwn(jobs, torrents)
    BY DEF IInv, FailInv
  <2>2. LeadsTo(torrents, job.path) = Read(job.torrent)
    BY <1>6, <1>13
  <2> QED BY <1>7, <1>13, <2>1, <2>2, OwnAppend
<1>15. FailInv'
  <2>1. failed => /\ AllDistinct(Tail(reloading), torrents)
                  /\ NoneHere(Tail(reloading), jobs', torrents)
    <3> SUFFICES ASSUME failed PROVE /\ AllDistinct(Tail(reloading), torrents)
                                     /\ NoneHere(Tail(reloading), jobs', torrents)
      OBVIOUS
    <3>1. AllDistinct(reloading, torrents) /\ NoneHere(reloading, jobs, torrents)
      BY DEF IInv, FailInv
    <3>2. AllDistinct(Tail(reloading), torrents)
      BY <1>3, <3>1, DistinctTail
    <3>3. LeadsTo(torrents, Head(reloading).TorrentPath) = Read(job.torrent)
      BY <1>13 DEF entry
    <3>4. NoneHere(Tail(reloading), Append(jobs, job), torrents)
      BY <1>3, <1>13, <3>1, <3>3, NoneAppend DEF IInv, FilesInv
    <3> QED BY <1>7, <3>2, <3>4
  <2> QED BY <1>1, <1>14, <2>1 DEF IInv, FailInv
<1>16. OrderInv'
  <2>1. CASE ~orderly
    BY <1>1, <2>1 DEF OrderInv
  <2>2. CASE orderly
    <3>1. AllJobs(saved) /\ built = Saved(saved) /\ KeptOf(history) = built
          /\ Reloaded(built, reloading, jobs, torrents)
      BY <2>2 DEF IInv, OrderInv
    <3>2. CASE pc' = "no_thread"
      BY <1>1, <3>1, <3>2 DEF OrderInv
    <3>3. CASE reloading' = Tail(reloading) /\ pc' = pc
      <4>1. IsSeq(built)
        BY DEF IInv, HistoryInv, EntriesOK, IsHistory
      <4> DEFINE more == Append(jobs, job)
                 first == LeadsTo(torrents, Head(reloading).TorrentPath)
                 made == ReloadedJob(first.msg, Head(reloading))
      <4>2. /\ Len(jobs) \in Nat /\ DOMAIN more = 1 .. Len(jobs) + 1 /\ DOMAIN jobs = 1 .. Len(jobs)
            /\ more[Len(jobs) + 1] = job /\ \A i \in DOMAIN jobs : more[i] = jobs[i]
        BY <1>13, SeqAppend
      <4>3. job = made
        BY DEF job, torrent, entry
      <4>6. more = jobs'
        BY <1>7
      <4> HIDE DEF more, made
      <4>4. /\ \A k \in DOMAIN jobs : \E l \in DOMAIN more : more[l] = jobs[k]
            /\ \E l \in DOMAIN more : more[l] = made
        <5>1. Len(jobs) + 1 \in DOMAIN more /\ \A k \in DOMAIN jobs : k \in DOMAIN more
          BY <4>2
        <5> QED BY <4>2, <4>3, <5>1
      <4> HIDE DEF first
      <4>7. first.ok => \E l \in DOMAIN more : more[l] = ReloadedJob(first.msg, Head(reloading))
        BY <4>4 DEF made
      <4>5. Reloaded(built, Tail(reloading), more, torrents)
        BY <1>3, <3>1, <4>1, <4>4, <4>7, ReloadedTail DEF first
      <4> QED BY <1>1, <3>1, <3>3, <4>5, <4>6 DEF OrderInv
    <3> QED BY <3>2, <3>3
  <2> QED BY <2>1, <2>2
<1> QED BY <1>11, <1>12, <1>15, <1>16 DEF IInv

\* An entry is skipped, becomes a job, or ends the start.
LEMMA ReloadOneJobStep == ASSUME IInv, ReloadOneJob PROVE IInv'
<1> DEFINE entry == Head(reloading)
           torrent == LeadsTo(torrents, entry.TorrentPath)
<1>1. pc = "reloading" /\ reloading # <<>> /\ UNCHANGED <<disk, making, commands, crashes, ghosts>>
  BY DEF ReloadOneJob
<1>2. torrent.ok \in BOOLEAN
  BY LeadsFacts DEF IInv, FilesInv
<1>3. ParseTorrent(entry.TorrentPath) = torrent
  BY SameLeads
<1>4. \/ ~torrent.ok /\ reloading' = Tail(reloading) /\ UNCHANGED <<pc, jobs>>
      \/ /\ torrent.ok /\ HasThisTorrent(torrent.msg.TorrentId)
         /\ pc' = "duplicate" /\ reloading' = <<>> /\ UNCHANGED jobs
      \/ /\ torrent.ok /\ ~HasThisTorrent(torrent.msg.TorrentId)
         /\ jobs' = Append(jobs, ReloadedJob(torrent.msg, entry))
         /\ \/ reloading' = Tail(reloading) /\ pc' = pc
            \/ pc' = "no_thread" /\ reloading' = <<>>
  <2> HIDE DEF torrent
  <2> QED BY <1>2, <1>3 DEF ReloadOneJob
<1>5. CASE ~torrent.ok /\ reloading' = Tail(reloading) /\ UNCHANGED <<pc, jobs>>
  BY <1>1, <1>5, SkipStep
<1>6. CASE /\ torrent.ok /\ HasThisTorrent(torrent.msg.TorrentId)
           /\ pc' = "duplicate" /\ reloading' = <<>> /\ UNCHANGED jobs
  BY <1>1, <1>6, DuplicateStep
<1>7. CASE /\ torrent.ok /\ ~HasThisTorrent(torrent.msg.TorrentId)
           /\ jobs' = Append(jobs, ReloadedJob(torrent.msg, entry))
           /\ \/ reloading' = Tail(reloading) /\ pc' = pc
              \/ pc' = "no_thread" /\ reloading' = <<>>
  BY <1>1, <1>7, ReloadStep
<1> QED BY <1>4, <1>5, <1>6, <1>7
-----------------------------------------------------------------------------
(* Saving and crashes                                                      *)

\* A history saved to its end, and any part of it, is the start of one.
LEMMA WholeAndNone ==
  ASSUME NEW es, IsHistory(es)
  PROVE  /\ StartOf(<<>>, es)
         /\ StartOf(<<>> \o HistoryStream(es), es)
         /\ <<>> \o HistoryStream(es) = HistoryStream(es)
         /\ \A n \in 0 .. Len(HistoryStream(es)) : StartOf(<<>> \o SubSeq(HistoryStream(es), 1, n), es)
<1> DEFINE s == HistoryStream(es)
<1>1. /\ Len(s) \in Nat /\ SubSeq(s, 1, 0) = <<>> /\ SubSeq(s, 1, Len(s)) = s /\ <<>> \o s = s
      /\ \A n \in 0 .. Len(s) : <<>> \o SubSeq(s, 1, n) = SubSeq(s, 1, n)
  BY StreamFacts
<1> HIDE DEF s
<1>2. 0 \in 0 .. Len(s) /\ Len(s) \in 0 .. Len(s)
  BY <1>1
<1> QED BY <1>1, <1>2 DEF StartOf, s

\* All entries have been reloaded: the program is up.
LEMMA ReloadEndsStep == ASSUME IInv, ReloadEnds PROVE IInv'
<1>1. /\ pc = "reloading" /\ pc' = "up" /\ failed' = FALSE
      /\ history' = history /\ torrents' = torrents /\ written' = written
      /\ jobs' = jobs /\ reloading' = reloading /\ making' = making
      /\ built' = built /\ saved' = saved /\ orderly' = orderly
  BY DEF ReloadEnds, disk
<1>2. FilesInv' /\ JobsInv' /\ HistoryInv'
  BY <1>1 DEF IInv, FilesInv, JobsInv, HistoryInv
<1>3. FailInv'
  BY <1>1 DEF FailInv, StartFailed
<1>4. OrderInv'
  BY <1>1 DEF IInv, OrderInv
<1> QED BY <1>2, <1>3, <1>4 DEF IInv

(* The history is emptied when it is opened to be written.                 *)
LEMMA SaveOpensStep ==
  ASSUME IInv, SaveOpens,
         \/ pc \in StartFailed /\ failed' = TRUE
         \/ pc = "up" /\ failed' = failed
  PROVE  IInv'
<1>1. /\ pc' = "saving" /\ orderly' = FALSE /\ history' = <<>>
      /\ torrents' = torrents /\ written' = written
      /\ jobs' = jobs /\ reloading' = reloading /\ making' = making
      /\ built' = built /\ saved' = saved
  BY DEF SaveOpens, Opened, Nothing
<1>2. FilesInv' /\ JobsInv'
  BY <1>1 DEF IInv, FilesInv, JobsInv
<1>3. HistoryInv'
  <2>1. StartOf(<<>>, built)
    BY WholeAndNone DEF IInv, HistoryInv, EntriesOK
  <2> QED BY <1>1, <2>1 DEF IInv, HistoryInv, Nothing
<1>4. FailInv'
  <2>1. KeptOf(<<>>) = <<>> /\ AllDistinct(<<>>, torrents)
    BY NoEntries, NoneDistinct
  <2>2. failed' \in BOOLEAN /\ (failed' => AllOwn(jobs, torrents))
    <3>1. CASE pc \in StartFailed /\ failed' = TRUE
      BY <3>1 DEF IInv, FailInv
    <3>2. CASE pc = "up" /\ failed' = failed
      BY <3>2 DEF IInv, FailInv
    <3> QED BY <3>1, <3>2
  <2> QED BY <1>1, <2>1, <2>2 DEF FailInv, StartFailed
<1>5. OrderInv'
  BY <1>1 DEF OrderInv
<1> QED BY <1>2, <1>3, <1>4, <1>5 DEF IInv

(* What is known of jobs that can be saved.                                *)
LEMMA SavedFacts ==
  ASSUME IInv, CanSave
  PROVE  /\ Entries = Saved(jobs) /\ EntriesOK(Entries, written) /\ AllJobs(jobs)
         /\ failed => \A j \in 0 .. Len(Entries) : AllDistinct(SubSeq(Entries, 1, j), torrents)
<1>1. JobsOK(jobs, written)
  BY DEF IInv, JobsInv
<1>2. \A i \in DOMAIN jobs : HasAll(jobs[i])
  BY DEF CanSave, HasAll
<1>3. Entries = Saved(jobs)
  BY DEF Entries, Saved
<1>4. EntriesOK(Saved(jobs), written)
  BY <1>1, <1>2, EntriesSaved
<1>5. AllJobs(jobs)
  BY <1>1, <1>2 DEF AllJobs, JobsOK
<1>6. ASSUME failed
      PROVE  \A j \in 0 .. Len(Saved(jobs)) : AllDistinct(SubSeq(Saved(jobs), 1, j), torrents)
  <2>1. AllOwn(jobs, torrents)
    BY <1>6 DEF IInv, FailInv
  <2> QED BY <1>1, <1>2, <2>1, DistinctSaved
<1> QED BY <1>3, <1>4, <1>5, <1>6

\* The history is saved to its end.
LEMMA SaveJobHistoryStep == ASSUME IInv, SaveJobHistory PROVE IInv'
<1>1. /\ pc = "saving" /\ pc' = "down" /\ CanSave
      /\ history' = history \o HistoryStream(Entries)
      /\ torrents' = torrents /\ written' = written
      /\ jobs' = <<>> /\ reloading' = reloading /\ making' = NotMaking
      /\ built' = Entries /\ saved' = jobs /\ orderly' = TRUE /\ failed' = failed
  BY DEF SaveJobHistory, ProgramEnds, HistoryStream
<1>2. /\ Entries = Saved(jobs) /\ EntriesOK(Entries, written) /\ AllJobs(jobs)
      /\ failed => \A j \in 0 .. Len(Entries) : AllDistinct(SubSeq(Entries, 1, j), torrents)
  BY <1>1, SavedFacts
<1>3. IsHistory(Entries)
  BY <1>2 DEF EntriesOK
<1>4. history' = <<>> \o HistoryStream(Entries)
  BY <1>1 DEF IInv, HistoryInv, Nothing
<1>5. StartOf(history', Entries) /\ history' = HistoryStream(Entries)
  BY <1>3, <1>4, WholeAndNone
<1>6. KeptOf(history') = Entries
  BY <1>3, <1>5, KeptAll
<1>7. FilesInv'
  BY <1>1 DEF IInv, FilesInv
<1>8. JobsOK(<<>>, written)
  BY NoJobs
<1>9. JobsInv'
  BY <1>1, <1>8 DEF JobsInv
<1>10. HistoryInv'
  BY <1>1, <1>2, <1>5 DEF IInv, HistoryInv
<1>11. FailInv'
  <2>1. failed => AllDistinct(Entries, torrents)
    <3>1. Len(Entries) \in 0 .. Len(Entries) /\ SubSeq(Entries, 1, Len(Entries)) = Entries
      <4>1. PICK T : Entries \in Seq(T)
        BY <1>3 DEF IsHistory, IsSeq
      <4> QED BY <4>1
    <3> QED BY <1>2, <3>1
  <2>2. AllOwn(<<>>, torrents)
    BY NoneOfNoJobs
  <2> QED BY <1>1, <1>6, <2>1, <2>2 DEF IInv, FailInv
<1>12. OrderInv'
  BY <1>1, <1>2, <1>6 DEF OrderInv
<1> QED BY <1>7, <1>9, <1>10, <1>11, <1>12 DEF IInv

\* A job of which not all files were selected: the save throws, and the file stays
\* empty.
LEMMA SaveThrowsStep == ASSUME IInv, SaveThrows PROVE IInv'
<1>1. /\ pc = "saving" /\ pc' = "hung"
      /\ history' = history /\ torrents' = torrents /\ written' = written
      /\ jobs' = jobs /\ reloading' = reloading /\ making' = making
      /\ built' = built /\ saved' = saved /\ orderly' = orderly /\ failed' = failed
  BY DEF SaveThrows, disk, ghosts
<1>2. FilesInv' /\ JobsInv' /\ HistoryInv' /\ FailInv' /\ OrderInv'
  BY <1>1 DEF IInv, FilesInv, JobsInv, HistoryInv, FailInv, OrderInv, StartFailed
<1> QED BY <1>2 DEF IInv

\* The user kills the program that hangs.
LEMMA KillStep == ASSUME IInv, Kill PROVE IInv'
<1>1. /\ pc = "hung" /\ pc' = "down"
      /\ history' = history /\ torrents' = torrents /\ written' = written
      /\ jobs' = <<>> /\ reloading' = reloading /\ making' = NotMaking
      /\ built' = built /\ saved' = saved /\ orderly' = orderly /\ failed' = failed
  BY DEF Kill, ProgramEnds, ghosts
<1>2. JobsOK(<<>>, written) /\ AllOwn(<<>>, torrents)
  BY NoJobs, NoneOfNoJobs
<1>3. FilesInv' /\ JobsInv' /\ HistoryInv'
  BY <1>1, <1>2 DEF IInv, FilesInv, JobsInv, HistoryInv
<1>4. FailInv' /\ OrderInv'
  BY <1>1, <1>2 DEF IInv, FailInv, OrderInv, StartFailed
<1> QED BY <1>3, <1>4 DEF IInv

(* Chunks that arrive, also while the history is being saved.              *)
LEMMA ChunkStep ==
  ASSUME IInv, pc \in {"up", "saving", "hung"},
         UNCHANGED <<pc, history, torrents, reloading, making, ghosts>>,
         IsDisk(written'), Grows(written, written'), JobsOK(jobs', written'),
         AllOwn(jobs, torrents) => AllOwn(jobs', torrents)
  PROVE  IInv'
<1>1. /\ pc' = pc /\ history' = history /\ torrents' = torrents /\ reloading' = reloading
      /\ making' = making /\ built' = built /\ saved' = saved /\ orderly' = orderly /\ failed' = failed
  BY DEF ghosts
<1>2. EntriesOK(built, written') /\ EntriesOK(reloading, written')
  BY EntriesKeep DEF IInv, HistoryInv
<1>3. FilesInv' /\ JobsInv' /\ HistoryInv'
  BY <1>1, <1>2 DEF IInv, FilesInv, JobsInv, HistoryInv
<1>4. FailInv' /\ OrderInv'
  BY <1>1 DEF IInv, FailInv, OrderInv, StartFailed
<1> QED BY <1>3, <1>4 DEF IInv

\* A chunk is written to disk, or marked that has been.
LEMMA ChunkArrivesStep ==
  ASSUME IInv, NEW i \in DOMAIN jobs, NEW fileid \in DOMAIN jobs[i].bitmap_map,
         NEW chunk \in 0 .. jobs[i].bitmap_map[fileid].size - 1,
         WriteChunk(i, fileid, chunk) \/ MarkChunk(i, fileid, chunk)
  PROVE  IInv'
<1> DEFINE job == jobs[i]
<1>1. IsJob(job) /\ Claimed(job, written) /\ JobsOK(jobs, written) /\ IsSeq(jobs)
  BY DEF IInv, JobsInv, JobsOK
<1>2. /\ job.top \in TorrentIds /\ fileid \in FileIds
      /\ job.bitmap_map[fileid] \in Bitmaps(ChunksOf(fileid))
  BY <1>1 DEF IsJob, Sized
<1>3. ChunksOf(fileid) \in Nat /\ job.bitmap_map[fileid].size = ChunksOf(fileid)
  BY <1>2, SizedFacts
<1>4. IsDisk(written)
  BY DEF IInv, FilesInv
<1>5. CASE WriteChunk(i, fileid, chunk)
  <2> DEFINE v == [written EXCEPT ![job.top][fileid] = @ \cup {chunk}]
  <2>1. /\ pc \in {"up", "saving", "hung"} /\ jobs' = jobs /\ written' = v
        /\ UNCHANGED <<pc, history, torrents, reloading, making, ghosts>>
    BY <1>5 DEF WriteChunk
  <2> HIDE DEF job
  <2>2. IsDisk(v) /\ Grows(written, v)
    <3>1. chunk \in 0 .. ChunksOf(fileid) - 1
      BY <1>3 DEF job
    <3> QED BY <1>2, <1>3, <1>4, <3>1, DiskGrows
  <2> HIDE DEF v
  <2>3. JobsOK(jobs, v)
    BY <1>1, <2>2, JobsKeep
  <2> QED BY <2>1, <2>2, <2>3, ChunkStep
<1>6. CASE MarkChunk(i, fileid, chunk)
  <2> DEFINE more == [job EXCEPT !.bitmap_map[fileid].ones = @ \cup {chunk}]
  <2>1. /\ pc \in {"up", "saving", "hung"} /\ written' = written
        /\ jobs' = [jobs EXCEPT ![i].bitmap_map[fileid].ones = @ \cup {chunk}]
        /\ UNCHANGED <<pc, history, torrents, reloading, making, ghosts>>
        /\ chunk \in written[job.top][fileid]
    BY <1>6 DEF MarkChunk, Mark, disk
  <2>2. jobs' = [jobs EXCEPT ![i] = more]
    BY <2>1
  <2>3. fileid \in DOMAIN job.bitmap_map /\ chunk \in 0 .. job.bitmap_map[fileid].size - 1
    OBVIOUS
  <2>4. more.torrent = jobs[i].torrent /\ more.path = jobs[i].path /\ IsJob(more) /\ Claimed(more, written)
    <3> HIDE DEF job
    <3>1. /\ IsJob(more) /\ Claimed(more, written)
          /\ more.torrent = job.torrent /\ more.path = job.path
      BY <1>1, <2>1, <2>3, JobGrows
    <3> QED BY <3>1 DEF job
  <2> HIDE DEF more
  <2>5. JobsOK([jobs EXCEPT ![i] = more], written)
    BY <1>1, <2>4, JobsUpdate
  <2>6. AllOwn(jobs, torrents) => AllOwn([jobs EXCEPT ![i] = more], torrents)
    BY <1>1, <2>4, OwnUpdate
  <2>7. IsDisk(written') /\ Grows(written, written')
    BY <1>4, <2>1, SameDisk
  <2> QED BY <2>1, <2>2, <2>5, <2>6, <2>7, ChunkStep
<1> QED BY <1>5, <1>6

\* The program is killed, perhaps while it saves.
LEMMA CrashStep == ASSUME IInv, Crash PROVE IInv'
<1>1. /\ pc # "down" /\ pc' = "down"
      /\ torrents' = torrents /\ written' = written
      /\ jobs' = <<>> /\ reloading' = <<>> /\ making' = NotMaking
  BY DEF Crash, ProgramEnds
<1>2. \/ /\ history' = history /\ built' = built
         /\ saved' = saved /\ orderly' = orderly /\ failed' = failed
      \/ /\ pc = "saving" /\ CanSave /\ built' = Entries
         /\ saved' = saved /\ orderly' = orderly /\ failed' = failed
         /\ \E n \in 0 .. Len(HistoryStream(Entries)) :
              history' = history \o SubSeq(HistoryStream(Entries), 1, n)
  BY DEF Crash, ghosts, HistoryStream
<1>3. JobsOK(<<>>, written) /\ EntriesOK(<<>>, written) /\ AllOwn(<<>>, torrents)
  BY NoJobs, NoneOfNoJobs
<1>4. FilesInv' /\ JobsInv'
  BY <1>1, <1>3 DEF IInv, FilesInv, JobsInv
<1>5. CASE /\ history' = history /\ built' = built
           /\ saved' = saved /\ orderly' = orderly /\ failed' = failed
  BY <1>1, <1>3, <1>4, <1>5 DEF IInv, HistoryInv, FailInv, OrderInv, StartFailed
<1>6. CASE /\ pc = "saving" /\ CanSave /\ built' = Entries
           /\ saved' = saved /\ orderly' = orderly /\ failed' = failed
           /\ \E n \in 0 .. Len(HistoryStream(Entries)) :
                history' = history \o SubSeq(HistoryStream(Entries), 1, n)
  <2>1. PICK n \in 0 .. Len(HistoryStream(Entries)) :
          history' = history \o SubSeq(HistoryStream(Entries), 1, n)
    BY <1>6
  <2>2. /\ EntriesOK(Entries, written)
        /\ failed => \A j \in 0 .. Len(Entries) : AllDistinct(SubSeq(Entries, 1, j), torrents)
    BY <1>6, SavedFacts
  <2>3. history = <<>> /\ ~orderly
    BY <1>6 DEF IInv, HistoryInv, Nothing
  <2>4. StartOf(history', Entries)
    BY <2>1, <2>2, <2>3, WholeAndNone DEF EntriesOK
  <2>5. HistoryInv'
    BY <1>1, <1>3, <1>6, <2>2, <2>4 DEF HistoryInv
  <2>6. FailInv'
    <3>1. PICK j \in 0 .. Len(Entries) : KeptOf(history') = SubSeq(Entries, 1, j)
      BY <2>2, <2>4, KeptPart
    <3>2. failed => AllDistinct(KeptOf(history'), torrents)
      BY <2>2, <3>1
    <3> QED BY <1>1, <1>3, <1>6, <3>2 DEF IInv, FailInv
  <2>7. OrderInv'
    BY <1>6, <2>3 DEF OrderInv
  <2> QED BY <1>4, <2>5, <2>6, <2>7 DEF IInv
<1> QED BY <1>2, <1>5, <1>6

\* Every step keeps the inductive invariant.
LEMMA NextIInv == ASSUME IInv, [Next]_vars PROVE IInv'
<1>1. CASE Start
  BY <1>1, StartStep
<1>2. CASE ReloadOneJob
  BY <1>2, ReloadOneJobStep
<1>3. CASE ReloadEnds
  BY <1>3, ReloadEndsStep
<1>4. CASE InitFails
  <2>1. pc \in StartFailed /\ SaveOpens /\ failed' = TRUE
    BY <1>4 DEF InitFails
  <2> QED BY <2>1, SaveOpensStep
<1>5. CASE SaveJobHistory
  BY <1>5, SaveJobHistoryStep
<1>6. CASE SaveThrows
  BY <1>6, SaveThrowsStep
<1>7. CASE Kill
  BY <1>7, KillStep
<1>8. CASE MakeEnds
  BY <1>8, MakeEndsStep
<1>9. CASE ChunkArrives
  BY <1>9, ChunkArrivesStep DEF ChunkArrives
<1>10. CASE User
  <2>1. CASE Quit
    BY <2>1, SaveOpensStep DEF Quit
  <2>2. CASE \E path \in Paths, id \in TorrentIds : MakeBegins(path, id) \/ DownloadTorrent(path, id)
    BY <2>2, MakeBeginsStep, DownloadTorrentStep
  <2>3. CASE MakeStopped
    BY <2>3, MakeStoppedStep
  <2>4. CASE \E path \in DOMAIN torrents : AddNewDownloadJob(path)
    BY <2>4, AddNewDownloadJobStep
  <2>5. CASE \E i \in DOMAIN jobs : RemoveJob(i)
    BY <2>5, RemoveJobStep
  <2> QED BY <1>10, <2>1, <2>2, <2>3, <2>4, <2>5 DEF User
<1>11. CASE Crash
  BY <1>11, CrashStep
<1>12. CASE UNCHANGED vars
  BY <1>12 DEF IInv, vars, FilesInv, JobsInv, HistoryInv, FailInv, OrderInv, StartFailed
<1> QED BY <1>1, <1>2, <1>3, <1>4, <1>5, <1>6, <1>7, <1>8, <1>9, <1>10, <1>11, <1>12 DEF Next

\* The inductive invariant holds in every reachable state, for all torrents,
\* names, threads, commands and crashes.
THEOREM HistoryInvariant == Spec => []IInv
BY InitIInv, NextIInv, PTL DEF Spec

\* What is read of the history is a part of what was saved.
LEMMA OnlyWhatWasSavedFollows == ASSUME IInv PROVE OnlyWhatWasSaved
<1> DEFINE read == Parse(History, history)
<1>1. EntriesOK(built, written) /\ StartOf(history, built)
  BY DEF IInv, HistoryInv
<1>2. PICK j \in 0 .. Len(built) : KeptOf(history) = SubSeq(built, 1, j)
  BY <1>1, KeptPart
<1>3. ASSUME read.ok PROVE read.msg.JobInfo = SubSeq(built, 1, j)
  BY <1>2, <1>3 DEF KeptOf
<1>4. IsPrefix(SubSeq(built, 1, j), built)
  <2>1. PICK T : built \in Seq(T)
    BY <1>1 DEF EntriesOK, IsHistory, IsSeq
  <2> QED BY <2>1 DEF IsPrefix
<1> QED BY <1>3, <1>4 DEF OnlyWhatWasSaved

\* When all entries have been reloaded, that of the job has been: its torrent was
\* there, and what was made of it is the job.
LEMMA OwnJobsComeBackFollows == ASSUME IInv PROVE OwnJobsComeBack
<1> SUFFICES ASSUME pc = "reloading", reloading = <<>>, orderly, NEW i \in DOMAIN saved, OwnTorrent(saved[i])
             PROVE  \E k \in DOMAIN jobs : SameJob(saved[i], jobs[k])
  BY DEF OwnJobsComeBack
<1> DEFINE job == saved[i]
           entry == built[i]
<1>1. AllJobs(saved) /\ built = Saved(saved) /\ Reloaded(built, reloading, jobs, torrents)
  BY DEF IInv, OrderInv
<1>2. IsJob(job) /\ HasAll(job) /\ IsSeq(saved)
  BY <1>1 DEF AllJobs
<1>3. entry = SavedJob(job) /\ DOMAIN built = DOMAIN saved
  BY <1>1 DEF Saved
<1>4. IsSeq(built)
  BY DEF IInv, HistoryInv, EntriesOK, IsHistory
<1> HIDE DEF job, entry
<1>5. entry.TorrentPath = job.path
  BY <1>2, <1>3, SavedJobFacts
<1>6. LeadsTo(torrents, entry.TorrentPath) = Read(job.torrent)
  BY <1>5, SameLeads DEF OwnTorrent, job
<1>7. PICK d \in 0 .. Len(built) :
        /\ DOMAIN reloading = 1 .. Len(built) - d
        /\ \A k \in 1 .. d : LeadsTo(torrents, built[k].TorrentPath).ok =>
             \E l \in DOMAIN jobs : jobs[l] = ReloadedJob(LeadsTo(torrents, built[k].TorrentPath).msg, built[k])
  BY <1>1 DEF Reloaded
<1>8. i \in 1 .. d
  <2>1. Len(built) \in Nat /\ DOMAIN built = 1 .. Len(built)
    BY <1>4, SeqFacts
  <2>2. 1 .. Len(built) - d = {}
    BY <1>7
  <2> DEFINE n == Len(built)
  <2>3. d \in 0 .. n /\ n \in Nat /\ 1 .. n - d = {}
    BY <1>7, <2>1, <2>2
  <2> HIDE DEF n
  <2>4. d = n
    <3> SUFFICES ASSUME d # n PROVE FALSE
      OBVIOUS
    <3>1. 1 \in 1 .. n - d
      BY <2>3
    <3> QED BY <2>3, <3>1
  <2> QED BY <1>3, <2>1, <2>4 DEF n
<1>9. PICK l \in DOMAIN jobs : jobs[l] = ReloadedJob(LeadsTo(torrents, entry.TorrentPath).msg, entry)
  BY <1>6, <1>7, <1>8, ReadFacts DEF entry
<1>10. jobs[l] = ReloadedJob(job.torrent, SavedJob(job))
  BY <1>3, <1>6, <1>9, ReadFacts
<1>11. SameJob(job, jobs[l])
  BY <1>2, <1>10, SameAfterReload
<1> QED BY <1>11 DEF job

\* The jobs claim no more than there is.
LEMMA ClaimsOwnedFollows == ASSUME IInv PROVE ClaimsOwned
BY DEF IInv, JobsInv, JobsOK, Claimed, ClaimsOwned

\* After a failed start no two entries lead to one torrent.
LEMMA FailsOnceFollows == ASSUME IInv PROVE FailsOnce
BY DEF IInv, FailInv, FailsOnce

\* A program killed while it saves leaves the first entries of the history it was
\* saving, each whole, or none: never part of an entry, and none of an earlier time.
THEOREM OnlyWhatWasSavedHolds == Spec => []OnlyWhatWasSaved
BY HistoryInvariant, OnlyWhatWasSavedFollows, PTL

\* After an orderly end, every job whose torrent file is still its own comes back
\* with its directory and every bit of its bitmaps, or the start fails.
THEOREM OwnJobsComeBackHolds == Spec => []OwnJobsComeBack
BY HistoryInvariant, OwnJobsComeBackFollows, PTL

\* No bitmap claims a chunk that is not on disk, across restarts, kills at any
\* step and torrents that have replaced others.
THEOREM ClaimsOwnedHolds == Spec => []ClaimsOwned
BY HistoryInvariant, ClaimsOwnedFollows, PTL

\* Two entries that lead to one torrent end a start, and never the next one.
THEOREM FailsOnceHolds == Spec => []FailsOnce
BY HistoryInvariant, FailsOnceFollows, PTL
=============================================================================
