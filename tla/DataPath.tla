------------------------------ MODULE DataPath ------------------------------
(***************************************************************************)
(* The way of the data of metric instances, from the intervals that an     *)
(* aggregator delivers to what a visi shows: the histogram of the global   *)
(* phase of each instance, the buffer of the visi's performance stream,    *)
(* the mailbox and the buffer of its visi thread, and the data grid of the *)
(* visi process.  When a histogram is full all that start at the same time *)
(* fold, two bins into one, and the visi is told to fold its grid.         *)
(*                                                                         *)
(* Data is modelled by the time it was measured: a bin is the set of units *)
(* of time whose data it sums up (unit u ends at time u), with 0 in every  *)
(* bin that is not NaN.  A value in the grid is divided by a bucket width  *)
(* and so is such a set with its divisor.  The data manager and the visi   *)
(* thread run concurrently; the visi process gets calls in their order.    *)
(***************************************************************************)
EXTENDS Integers, FiniteSets, Sequences, SequencesExt, FiniteSetsExt

CONSTANTS
    MI,           \* metric instances
    Persistent,   \* those whose data stays when nobody uses them
    numBins,      \* bins of a histogram
    MinWidth,     \* Histogram::getMinBucketWidth
    MaxTime,      \* bound: units of time
    MaxMail,      \* bound: messages that wait for the visi thread
    MaxOpen       \* bound: how often instances are opened

ASSUME DataPathAssumption ==
    /\ IsFiniteSet(MI) /\ Persistent \subseteq MI
    /\ numBins \in Nat \ {0} /\ numBins % 2 = 0
    /\ MinWidth \in Nat \ {0} /\ MaxTime \in Nat /\ MaxMail \in Nat /\ MaxOpen \in Nat

Bin == 0 .. numBins - 1
NaN == {}

VARIABLES
    hist,             \* metricInstance::global_data of each instance
    globalBucketSize, lastGlobalBin,    \* statics of Histogram
    globalWidth,      \* metricInstance::global_bucket_width
    intvl,            \* the aggregator's open interval of each instance
    users,            \* instances the visi's stream gets
    others,           \* instances the PC uses
    opened,           \* how often instances were opened
    buffer,           \* my_buffer of the performance stream
    mail,             \* upcalls that wait for the visi thread
    mrlist,           \* instances the visi thread knows
    vbuffer, vsize,   \* its buffer for the visi, and the size of it
    vwidth,           \* its bucketWidth
    fetching, bulk,   \* the instance whose old data it fetches, and the data
    grid, binWidth,   \* the data grid and its width, 0 before there is one
    kept,             \* history: what each histogram got while active
    torn,             \* history: instances fetched while a fold was under way
    odd               \* history: a histogram was created with a wrong width

dm == <<hist, globalBucketSize, lastGlobalBin, globalWidth, intvl>>
subscribers == <<users, others, opened>>
thread == <<mrlist, vbuffer, vsize, vwidth, fetching, bulk>>
visi == <<grid, binWidth>>
vars == <<dm, subscribers, buffer, mail, thread, visi, kept, torn, odd>>

NoHist == [exists |-> FALSE, active |-> FALSE, foldOnInactive |-> FALSE,
           width |-> MinWidth, bins |-> [b \in Bin |-> NaN],
           lastBin |-> -1]
NoIntvl == [start |-> 0, width |-> 0, since |-> 0]
NoValue == [units |-> NaN, per |-> 0]
NoCell == [valid |-> FALSE, lastBucketFilled |-> -1,
           value |-> [b \in Bin |-> NoValue]]

Init ==
    /\ hist = [m \in MI |-> NoHist]
    /\ globalBucketSize = MinWidth /\ lastGlobalBin = 0
    /\ globalWidth = MinWidth
    /\ intvl = [m \in MI |-> NoIntvl]
    /\ users = {} /\ others = {} /\ opened = 0
    /\ buffer = <<>> /\ mail = <<>>
    /\ mrlist = {} /\ vbuffer = <<>> /\ vsize = 0 /\ vwidth = MinWidth
    /\ fetching = {} /\ bulk = <<>>
    /\ grid = [m \in MI |-> NoCell] /\ binWidth = 0
    /\ kept = [m \in MI |-> {}] /\ torn = {} /\ odd = FALSE

-----------------------------------------------------------------------------
(* The histogram. *)

Span(b, w) == (b * w + 1) .. ((b + 1) * w)

Doubled[k \in Nat] == IF k = 0 THEN 1 ELSE 2 * Doubled[k - 1]

(* The constructor computes a width from the time that Histogram believes   *)
(* it is, unless there is an active histogram, whose width it takes.        *)
ComputedWidth ==
    LET spanLen == globalBucketSize * lastGlobalBin
    IN  MinWidth * Doubled[CHOOSE k \in 0 .. spanLen :
            /\ MinWidth * Doubled[k] * numBins >= spanLen
            /\ \A i \in 0 .. k - 1 : MinWidth * Doubled[i] * numBins < spanLen]

Active == {m \in MI : hist[m].active}

FirstWidth == IF Active # {} THEN hist[CHOOSE m \in Active : TRUE].width ELSE ComputedWidth

\* faulty variant: a bin without data before one that has some hides it
FoldFirst(h) ==
    [h EXCEPT !.width = 2 * @, !.lastBin = @ \div 2,
              !.bins = [b \in Bin |-> IF b >= numBins \div 2 \/ @[2 * b] = NaN THEN NaN
                                      ELSE @[2 * b] \union @[2 * b + 1]]]

(* Fold one histogram: NaN and a bin with data make the latter. *)
Fold(h) ==
    LET bins == [b \in Bin |-> IF b < numBins \div 2
                               THEN h.bins[2 * b] \union h.bins[2 * b + 1] ELSE NaN]
        filled == {b \in Bin : bins[b] # NaN}
    IN  [h EXCEPT !.width = 2 * @, !.bins = bins,
                  !.lastBin = IF filled = {} THEN 0 ELSE Max(filled)]

\* faulty variant: fold_on_inactive is forgotten
FoldsActive(h, width) == h.exists /\ h.active /\ h.width < 2 * width

Folds(h, width) == h.exists /\ (h.active \/ h.foldOnInactive) /\ h.width < 2 * width

(* foldAllHist, called by a histogram of width w. *)
FoldAll(hs, w) == [m \in MI |-> IF Folds(hs[m], w) THEN Fold(hs[m]) ELSE hs[m]]

(* The histograms after each of count folds of the histogram of instance m. *)
Folded(m, count) ==
    LET folded[k \in 0 .. count] ==
            IF k = 0 THEN hist ELSE FoldAll(folded[k - 1], folded[k - 1][m].width)
    IN  folded

\* faulty variant: an interval that ends with the histogram does not fold it
FoldCountLate(m, end) ==
    CHOOSE k \in 0 .. MaxTime :
        /\ end <= numBins * hist[m].width * Doubled[k]
        /\ \A i \in 0 .. k - 1 : end > numBins * hist[m].width * Doubled[i]

(* How often addInterval of instance m folds to have room for time end. *)
FoldCount(m, end) ==
    CHOOSE k \in 0 .. MaxTime :
        /\ end < numBins * hist[m].width * Doubled[k]
        /\ \A i \in 0 .. k - 1 : end >= numBins * hist[m].width * Doubled[i]

(* bucketValue with the data of an interval. *)
BucketValue(h, start, end, units) ==
    LET first == start \div h.width
        last == end \div h.width
    IN  IF ~h.active THEN h
        ELSE [h EXCEPT !.bins = [b \in Bin |->
                          IF b \in first .. last
                          THEN @[b] \union {0} \union (units \intersect Span(b, h.width))
                          ELSE @[b]]]

-----------------------------------------------------------------------------
(* The performance stream. *)

Entries(m, h, first, last) ==
    [i \in 1 .. (last - first + 1) |->
        [mi |-> m, bin |-> first + i - 1, units |-> h.bins[first + i - 1]]]

DataMessage(es) == [kind |-> "data", entries |-> es, width |-> 0]
FoldMessage(w) == [kind |-> "fold", entries |-> <<>>, width |-> w]
EnabledMessage(m) == [kind |-> "enabled", entries |-> <<[mi |-> m]>>, width |-> 0]

Nonempty(es) == IF es = <<>> THEN <<>> ELSE <<DataMessage(es)>>

\* faulty variant: what is in the buffer is sent after the fold
FoldUnflushed(w) == <<FoldMessage(w)>> \o Nonempty(buffer)

(* performanceStream::foldAll *)
FoldStream(w) == Nonempty(buffer) \o <<FoldMessage(w)>>

(* callSampleFunc and flushBuffer: es are put in the buffer, which has a    *)
(* place per instance and is sent when it is full.                         *)
Sent(es, size) ==
    [i \in 1 .. Len(es) \div size |-> DataMessage(SubSeq(es, (i - 1) * size + 1, i * size))]
Left(es, size) == SubSeq(es, (Len(es) \div size) * size + 1, Len(es))

-----------------------------------------------------------------------------
(* The data manager. *)

Used == users \union others
\* a component starts no earlier than what is aggregated already
Now == Max({intvl[m].start : m \in MI} \union {intvl[m].since : m \in MI})

(* newGlobalDataCollection, and the components of the instance start at     *)
(* since: an instance that was kept goes on with the interval it had open.  *)
Open(m, since) ==
    LET new == ~hist[m].exists
    IN  /\ opened' = opened + 1
        /\ hist' = [hist EXCEPT ![m] =
               IF new THEN [NoHist EXCEPT !.exists = TRUE, !.active = TRUE, !.width = FirstWidth]
               ELSE [@ EXCEPT !.active = TRUE, !.foldOnInactive = FALSE]]
        /\ intvl' = [intvl EXCEPT ![m] =
               IF new THEN [start |-> since, width |-> 0, since |-> since]
               ELSE IF m \in Used THEN @ ELSE [@ EXCEPT !.since = since]]
        /\ kept' = [kept EXCEPT ![m] = IF new THEN {} ELSE @]
        /\ odd' = (odd \/ (new /\ Active = {} /\ FirstWidth # globalWidth))
        /\ UNCHANGED <<globalBucketSize, lastGlobalBin, globalWidth>>

(* DMdisableRoutine, when the last user of instance m goes. *)
Close(m) ==
    /\ hist' = [hist EXCEPT ![m] =
           IF m \in Persistent THEN [@ EXCEPT !.active = FALSE, !.foldOnInactive = TRUE]
           ELSE NoHist]
    /\ UNCHANGED <<globalBucketSize, lastGlobalBin, globalWidth, intvl>>

(* The PC enables and disables instances, too. *)
OpenOther(m) ==
    /\ opened < MaxOpen /\ m \notin others
    /\ \E since \in {Now, Now + 1} : since <= MaxTime /\ Open(m, since)
    /\ others' = others \union {m}
    /\ UNCHANGED <<users, buffer, mail, thread, visi, torn>>

CloseOther(m) ==
    /\ m \in others
    /\ others' = others \ {m}
    /\ IF m \in users THEN UNCHANGED dm ELSE Close(m)
    /\ UNCHANGED <<users, opened, buffer, mail, thread, visi, kept, torn, odd>>

(* An enable request of the visi succeeds: addGlobalUser flushes the stream *)
(* before its buffer grows, and the response follows.                       *)
Subscribe(m) ==
    /\ opened < MaxOpen /\ m \notin users /\ m \notin mrlist
    /\ Len(mail) < MaxMail
    /\ \E since \in {Now, Now + 1} : since <= MaxTime /\ Open(m, since)
    /\ users' = users \union {m}
    /\ buffer' = <<>>
    /\ mail' = mail \o Nonempty(buffer) \o <<EnabledMessage(m)>>
    /\ UNCHANGED <<others, thread, visi, torn>>

(* The widths of the folds that exceed globalWidth, which the streams are   *)
(* told, from the least to the greatest.                                    *)
Told(m, count) ==
    LET widths == {Folded(m, count)[k][i].width : k \in 1 .. count, i \in MI}
        wider == {w \in widths : w > globalWidth}
        n == Cardinality(wider)
    IN  CHOOSE told \in [1 .. n -> wider] : \A i, j \in 1 .. n : i < j => told[i] < told[j]

(* metricInstance::addInterval and Histogram::addInterval, with the folds   *)
(* and the data that are sent.                                              *)
AddInterval(m, start, end, units) ==
    LET count == FoldCount(m, end)
        folded == Folded(m, count)
        told == Told(m, count)
        h == [BucketValue(folded[count][m], start, end, units) EXCEPT
                 !.lastBin = end \div folded[count][m].width]
        folds == IF told = <<>> THEN <<>>
                 ELSE FoldStream(told[1]) \o
                      [i \in 1 .. Len(told) - 1 |-> FoldMessage(told[i + 1])]
        rest == IF told = <<>> THEN buffer ELSE <<>>
        es == rest \o Entries(m, h, start \div h.width, h.lastBin - 1)
        size == Cardinality(users)
    IN  /\ hist' = [folded[count] EXCEPT ![m] = h]
        /\ globalBucketSize' = globalBucketSize * Doubled[count]
        /\ lastGlobalBin' =
               Max({IF count > 0 THEN numBins \div 2 - 1 ELSE lastGlobalBin, h.lastBin}
                   \union {hist'[i].lastBin : i \in Active})
        /\ globalWidth' = IF told = <<>> THEN globalWidth ELSE told[Len(told)]
        /\ kept' = [kept EXCEPT ![m] = @ \union units]
        /\ IF m \in users
           THEN mail' = mail \o folds \o Sent(es, size) /\ buffer' = Left(es, size)
           ELSE mail' = mail \o folds /\ buffer' = rest

(* doAggregation: the next interval of instance m is complete, and the one  *)
(* after it gets the width of before the folds.                             *)
Aggregate(m) ==
    LET start == intvl[m].start
        end == start + (IF intvl[m].width = 0 THEN globalWidth ELSE intvl[m].width)
    IN  /\ m \in Used
        /\ end <= MaxTime /\ Len(mail) < MaxMail
        /\ AddInterval(m, start, end, (Max({start, intvl[m].since}) + 1) .. end)
        /\ intvl' = [intvl EXCEPT ![m].start = end, ![m].width = globalWidth]
        /\ UNCHANGED <<subscribers, thread, visi, torn, odd>>

-----------------------------------------------------------------------------
(* The visi process: the data grid. *)

(* The divisor of the mean of two values, 0 if they had different ones. *)
MeanPer(a, b) == IF a.per = b.per THEN 2 * a.per ELSE 0

(* visi_GridCellHisto::Fold: an odd last bin is dropped. *)
Mean(a, b) ==
    IF a.units = NaN THEN [b EXCEPT !.per = 2 * @]
    ELSE IF b.units = NaN THEN [a EXCEPT !.per = 2 * @]
    ELSE [units |-> a.units \union b.units, per |-> MeanPer(a, b)]

FoldCell(c) ==
    LET n == (c.lastBucketFilled + 1) \div 2
    IN  IF ~c.valid THEN c
        ELSE [c EXCEPT !.lastBucketFilled = n - 1,
                       !.value = [b \in Bin |->
                           IF b < n THEN Mean(@[2 * b], @[2 * b + 1]) ELSE NoValue]]

(* AddValue *)
AddValue(c, b, v) ==
    IF b \notin Bin THEN [c EXCEPT !.valid = TRUE]
    ELSE [c EXCEPT !.valid = TRUE, !.value[b] = v,
                   !.lastBucketFilled = IF b > @ THEN b ELSE @]

(* visualization::Data *)
Data(g, es) ==
    LET data[i \in 0 .. Len(es)] ==
            IF i = 0 THEN g
            ELSE [data[i - 1] EXCEPT ![es[i].mi] = AddValue(@, es[i].bin, es[i].v)]
    IN  data[Len(es)]

-----------------------------------------------------------------------------
(* The visi thread.  It does nothing else while it handles a callback, and  *)
(* the data manager goes on meanwhile.                                      *)

started == binWidth # 0
Idle == fetching = {}

(* The elements of es at positions in S, in their order. *)
Selected(es, S) ==
    LET selected[i \in 0 .. Len(es)] ==
            IF i = 0 THEN <<>>
            ELSE IF i \in S THEN Append(selected[i - 1], es[i]) ELSE selected[i - 1]
    IN  selected[Len(es)]

(* A message that the visi thread can do without its buffer being flushed.  *)
Flushed == Data(grid, vbuffer)

(* VISIthreadEnableCallback for one new pair, up to the first call to the   *)
(* data manager; a new grid gets the width that Histogram believes in.      *)
EnableCallback ==
    /\ Idle /\ mail # <<>> /\ Head(mail).kind = "enabled"
    /\ LET m == Head(mail).entries[1].mi
       IN  mrlist' = mrlist \union {m} /\ fetching' = {m} /\ grid' = Flushed
    /\ vbuffer' = <<>> /\ vsize' = vsize + 1
    /\ binWidth' = IF started THEN binWidth ELSE globalBucketSize
    /\ odd' = (odd \/ (~started /\ globalBucketSize # globalWidth))
    /\ mail' = Tail(mail)
    /\ UNCHANGED <<dm, subscribers, buffer, vwidth, bulk, kept, torn>>

(* getSampleValues, done by the data manager. *)
GetSampleValues(m) ==
    /\ m \in fetching /\ bulk = <<>>
    /\ bulk' = [b \in 1 .. hist[m].lastBin + 1 |-> hist[m].bins[b - 1]]
    /\ IF hist[m].lastBin = -1 THEN fetching' = {} ELSE UNCHANGED fetching
    /\ UNCHANGED <<dm, subscribers, buffer, mail, mrlist, vbuffer, vsize, vwidth,
                   visi, kept, torn, odd>>

pendingFolds == {i \in DOMAIN mail : mail[i].kind = "fold"}

(* The bins are divided by the width of the histogram and sent. *)
BulkDataTransfer(m) ==
    /\ m \in fetching /\ bulk # <<>>
    /\ LET es == [b \in 1 .. Len(bulk) |->
                    [mi |-> m, bin |-> b - 1, v |-> [units |-> bulk[b], per |-> hist[m].width]]]
       IN  grid' = Data(grid, Selected(es, {b \in DOMAIN es : es[b].v.units # NaN}))
    /\ fetching' = {} /\ bulk' = <<>>
    /\ torn' = IF pendingFolds = {} THEN torn ELSE torn \union {m}
    /\ UNCHANGED <<dm, subscribers, buffer, mail, mrlist, vbuffer, vsize, vwidth,
                   binWidth, kept, odd>>

(* VISIthreadDataCallback: data of instances it does not know is ignored;   *)
(* the divisor is the width the histogram has now.                          *)
Divisor(m) == hist[m].width

DataCallback ==
    /\ Idle /\ mail # <<>> /\ Head(mail).kind = "data"
    /\ LET sent == Head(mail).entries
           known == Selected(sent, {i \in DOMAIN sent : sent[i].mi \in mrlist})
           es == vbuffer \o [i \in DOMAIN known |->
                     [mi |-> known[i].mi, bin |-> known[i].bin,
                      v |-> [units |-> known[i].units, per |-> Divisor(known[i].mi)]]]
           full == IF vsize = 0 THEN 0 ELSE (Len(es) \div vsize) * vsize
       IN  /\ grid' = Data(grid, SubSeq(es, 1, full))
           /\ vbuffer' = SubSeq(es, full + 1, Len(es))
    /\ mail' = Tail(mail)
    /\ UNCHANGED <<dm, subscribers, buffer, mrlist, vsize, vwidth, fetching, bulk,
                   binWidth, kept, torn, odd>>

(* VISIthreadFoldCallback, and visualization::Fold in the visi process. *)
FoldCallback ==
    /\ Idle /\ mail # <<>> /\ Head(mail).kind = "fold"
    /\ LET width == Head(mail).width
       IN  IF started /\ vwidth # width
           THEN /\ grid' = [m \in MI |-> FoldCell(Flushed[m])]
                /\ binWidth' = width /\ vwidth' = width /\ vbuffer' = <<>>
           ELSE UNCHANGED <<grid, binWidth, vwidth, vbuffer>>
    /\ mail' = Tail(mail)
    /\ UNCHANGED <<dm, subscribers, buffer, mrlist, vsize, fetching, bulk, kept, torn, odd>>

(* The visi stops instance m: it forgets the cell, and the thread has the   *)
(* data manager remove the user (removeGlobalUser flushes the stream).      *)
StopMetricResource(m) ==
    /\ Idle /\ m \in mrlist /\ Len(mail) < MaxMail
    /\ users' = users \ {m}
    /\ IF m \in others THEN UNCHANGED dm ELSE Close(m)
    /\ mail' = mail \o Nonempty(buffer) /\ buffer' = <<>>
    /\ grid' = [Flushed EXCEPT ![m] = NoCell]
    /\ vbuffer' = <<>> /\ vsize' = vsize - 1
    /\ mrlist' = mrlist \ {m} /\ torn' = torn \ {m}
    /\ UNCHANGED <<others, opened, vwidth, fetching, bulk, binWidth, kept, odd>>

-----------------------------------------------------------------------------
Next ==
    \/ \E m \in MI : \/ OpenOther(m) \/ CloseOther(m) \/ Subscribe(m) \/ Aggregate(m)
                     \/ GetSampleValues(m) \/ BulkDataTransfer(m) \/ StopMetricResource(m)
    \/ EnableCallback \/ DataCallback \/ FoldCallback

Spec == Init /\ [][Next]_vars

-----------------------------------------------------------------------------
(* Type correctness; a bin is never outside the histogram and a buffer is   *)
(* sent before it is full.                                                  *)
TypeOK ==
    /\ hist \in [MI -> [exists : BOOLEAN, active : BOOLEAN, foldOnInactive : BOOLEAN,
                       width : Nat \ {0}, bins : [Bin -> SUBSET (0 .. MaxTime)],
                       lastBin : Bin \union {-1}]]
    /\ globalBucketSize \in Nat /\ lastGlobalBin \in Bin /\ globalWidth \in Nat
    /\ intvl \in [MI -> [start : 0 .. MaxTime, width : Nat, since : Nat]]
    /\ users \subseteq MI /\ others \subseteq MI /\ opened \in 0 .. MaxOpen
    /\ buffer # <<>> => Len(buffer) < Cardinality(users)
    /\ mrlist \subseteq users /\ fetching \subseteq mrlist
    /\ vsize = Cardinality(mrlist) /\ (vbuffer # <<>> => Len(vbuffer) < vsize)
    /\ \A m \in MI : grid[m].lastBucketFilled \in Bin \union {-1}

(* However often histograms fold, and whether an instance is in use then or *)
(* is kept for later, each bin has all of the data of its time that the     *)
(* histogram got while it was active, and no other.                         *)
BinsExact ==
    \A m \in MI : hist[m].exists =>
        \A b \in Bin : hist[m].bins[b] \ {0} = kept[m] \intersect Span(b, hist[m].width)

(* The width of the bins that the visi has, by the folds it was told of. *)
toldWidth ==
    IF pendingFolds = {} THEN globalWidth ELSE mail[Min(pendingFolds)].width \div 2

(* What a visi shows is data of the histogram, and never of another time:   *)
(* also while folds are under way each bin of the grid has data of the span *)
(* it will be labelled with, whichever side of a fold the data was sent on. *)
CellsSound ==
    LET width == toldWidth
    IN  \A m \in mrlist \ torn : ~odd =>
            \A b \in Bin : grid[m].value[b].units \ {0} \subseteq
                               kept[m] \intersect Span(b, width)

(* When all messages are handled no whole bin lacks data.                   *)
quiet == mail = <<>> /\ buffer = <<>> /\ vbuffer = <<>> /\ Idle

CellsComplete ==
    \A m \in mrlist \ torn : ~odd /\ quiet =>
        \A b \in Bin : (b + 1) * hist[m].width <= intvl[m].start =>
                        grid[m].value[b].units = hist[m].bins[b]

(* When the visi has handled all folds, the width it labels its bins with   *)
(* is the width of the bins of each of its instances.                       *)
WidthsAgree ==
    \A m \in mrlist : pendingFolds = {} /\ ~odd => binWidth = hist[m].width

(* A value that a visi shows is the data of the bin divided by its width:   *)
(* "This normalizes the value before being sent to the visis", which "are   *)
(* expecting the sample values to be normalized".                           *)
Normalized ==
    \A m \in mrlist \ torn : ~odd =>
        \A b \in Bin : grid[m].value[b].units # NaN => grid[m].value[b].per = toldWidth
=============================================================================
