------------------------------ MODULE TextDiff ------------------------------
(***************************************************************************)
(* How two versions of a Markdown or plain-text document are compared line *)
(* by line (textDiff and its helpers in services/vdoc/store.go): common    *)
(* ends are stripped, lines that occur once on both sides anchor the rest, *)
(* then a longest common subsequence, and what is left is a changed block. *)
(* A document is a sequence of lines, a range [fs, fe, ts, te] the lines   *)
(* from fs up to but not including fe of the old one and ts, te of the new.*)
(***************************************************************************)
EXTENDS Integers, Sequences, FiniteSets, SequencesExt, FiniteSetsExt

CONSTANTS MaxMarkdownDiffDepth,  \* anchors inside anchors before a block is given up
          MaxMarkdownLCSCells    \* the largest table of common subsequences

ASSUME DiffLimitsAssumption == MaxMarkdownDiffDepth \in Nat /\ MaxMarkdownLCSCells \in Nat

Span(fs, fe, ts, te) == [fs |-> fs, fe |-> fe, ts |-> ts, te |-> te]

\* The common lines at the start and at the end of a range are stripped.
StripStart(from, to, r) ==
  LET n == Max({n \in 0..Min({r.fe - r.fs, r.te - r.ts}) :
                  \A i \in 0..(n - 1) : from[r.fs + i] = to[r.ts + i]})
  IN Span(r.fs + n, r.fe, r.ts + n, r.te)

StripEnd(from, to, r) ==
  LET n == Max({n \in 0..Min({r.fe - r.fs, r.te - r.ts}) :
                  \A i \in 1..n : from[r.fe - i] = to[r.te - i]})
  IN Span(r.fs, r.fe - n, r.ts, r.te - n)

Stripped(from, to, r) == StripEnd(from, to, StripStart(from, to, r))

Occurring(s, low, high, line) == {i \in low..(high - 1) : s[i] = line}

Unique(from, to, r) ==
  {i \in r.fs..(r.fe - 1) : /\ Cardinality(Occurring(from, r.fs, r.fe, from[i])) = 1
                            /\ Cardinality(Occurring(to, r.ts, r.te, from[i])) = 1}

\* The line of the new document that each line unique on both sides is the same as.
Mates(from, to, r) ==
  [i \in Unique(from, to, r) |-> CHOOSE j \in r.ts..(r.te - 1) : to[j] = from[i]]

\* Patience sorting: an old line goes on the first pile whose top has no earlier mate, after
\* the top of the pile before.
Place(mate, piles, i) ==
  LET position == Min({p \in 1..Len(piles.tails) : mate[piles.tails[p]] >= mate[i]}
                        \cup {Len(piles.tails) + 1})
  IN [tails |-> IF position > Len(piles.tails) THEN Append(piles.tails, i)
                ELSE [piles.tails EXCEPT ![position] = i],
      previous |-> [piles.previous EXCEPT ![i] = IF position = 1 THEN 0
                                                 ELSE piles.tails[position - 1]]]

Piles(mate, r) ==
  LET Placed[i \in (r.fs - 1)..(r.fe - 1)] ==
        IF i = r.fs - 1 THEN [tails |-> <<>>, previous |-> [k \in DOMAIN mate |-> 0]]
        ELSE IF i \in DOMAIN mate THEN Place(mate, Placed[i - 1], i) ELSE Placed[i - 1]
  IN Placed[r.fe - 1]

\* From the top of the last pile back to the first.
AnchorsUpTo(mate, previous, last) ==
  LET Back[i \in DOMAIN mate \cup {0}] ==
        IF i = 0 THEN <<>> ELSE Append(Back[previous[i]], <<i, mate[i]>>)
  IN Back[last]

SortedAnchors(mate, r) ==
  LET piles == Piles(mate, r)
  IN IF piles.tails = <<>> THEN <<>> ELSE AnchorsUpTo(mate, piles.previous, Last(piles.tails))

MarkdownPatienceAnchors(from, to, r) == SortedAnchors(Mates(from, to, r), r)

Removing(p) == <<p[1] + 1, p[2]>>
Adding(p) == <<p[1], p[2] + 1>>
Keeping(p) == <<p[1] + 1, p[2] + 1>>
Points(r) == (r.fs..r.fe) \X (r.ts..r.te)
AtEnd(r, p) == p[1] = r.fe \/ p[2] = r.te

\* How long the longest common subsequence from a point to the end of a range is.
LongestFrom(from, to, r) ==
  LET Table[p \in Points(r)] ==
        IF AtEnd(r, p) THEN 0
        ELSE IF from[p[1]] = to[p[2]] THEN 1 + Table[Keeping(p)]
        ELSE Max({Table[Removing(p)], Table[Adding(p)]})
  IN Table

\* The subsequence itself; removing wins a tie.
CommonLines(from, to, r, table) ==
  LET Walk[p \in Points(r)] ==
        IF AtEnd(r, p) THEN <<>>
        ELSE IF from[p[1]] = to[p[2]] THEN <<p>> \o Walk[Keeping(p)]
        ELSE Walk[IF table[Removing(p)] >= table[Adding(p)] THEN Removing(p) ELSE Adding(p)]
  IN Walk[<<r.fs, r.ts>>]

MarkdownLCSAnchors(from, to, r) ==
  IF \/ r.fs = r.fe \/ r.ts = r.te
     \/ r.fe - r.fs + 1 > MaxMarkdownLCSCells \div (r.te - r.ts + 1)
  THEN <<>> ELSE CommonLines(from, to, r, LongestFrom(from, to, r))

\* A faulty variant: an old line is compared again after it was matched.
GapFromAnchor(r, anchors, k) ==
  Span(IF k = 1 THEN r.fs ELSE anchors[k - 1][1], IF k > Len(anchors) THEN r.fe ELSE anchors[k][1],
       IF k = 1 THEN r.ts ELSE anchors[k - 1][2] + 1, IF k > Len(anchors) THEN r.te ELSE anchors[k][2])

\* The lines before the k-th anchor, or after the last one.
Gap(r, anchors, k) ==
  Span(IF k = 1 THEN r.fs ELSE anchors[k - 1][1] + 1, IF k > Len(anchors) THEN r.fe ELSE anchors[k][1],
       IF k = 1 THEN r.ts ELSE anchors[k - 1][2] + 1, IF k > Len(anchors) THEN r.te ELSE anchors[k][2])

\* Lines that occur once anchor a range before repeated ones do.
Anchors(from, to, r) ==
  LET unique == MarkdownPatienceAnchors(from, to, r)
  IN IF unique = <<>> THEN MarkdownLCSAnchors(from, to, r) ELSE unique

Ranges(from, to) ==
  {r \in [fs : 1..(Len(from) + 1), fe : 1..(Len(from) + 1),
          ts : 1..(Len(to) + 1), te : 1..(Len(to) + 1)] : r.fs <= r.fe /\ r.ts <= r.te}

\* A range without anchors is one block, another one the blocks within its gaps.
BlocksBetween(r, anchors, within) ==
  IF r.fs = r.fe /\ r.ts = r.te THEN <<>>
  ELSE IF anchors = <<>> THEN <<r>>
  ELSE FlattenSeq([k \in 1..(Len(anchors) + 1) |-> within[Gap(r, anchors, k)]])

\* The blocks of every range; anchors are looked for as deep as the limit leaves.
CollectMarkdownDiffBlocks(from, to) ==
  LET Within[left \in 0..MaxMarkdownDiffDepth] ==
        [range \in Ranges(from, to) |->
           LET r == Stripped(from, to, range)
           IN IF left = 0 THEN BlocksBetween(r, <<>>, <<>>)
              ELSE BlocksBetween(r, Anchors(from, to, r), Within[left - 1])]
  IN Within[MaxMarkdownDiffDepth]

Whole(from, to) == Span(1, Len(from) + 1, 1, Len(to) + 1)

\* The items of a block: its lines paired as far as they go, the rest removed or added.
BlockItems(from, to, r) ==
  LET old == r.fe - r.fs
      new == r.te - r.ts
      paired == Min({old, new})
  IN {[change |-> "modified", line |-> r.fs + k, old |-> from[r.fs + k], new |-> to[r.ts + k]] :
        k \in 0..(paired - 1)}
       \cup {[change |-> "removed", line |-> r.fs + k, old |-> from[r.fs + k], new |-> ""] :
               k \in paired..(old - 1)}
       \cup {[change |-> "added", line |-> r.ts + k, old |-> "", new |-> to[r.ts + k]] :
               k \in paired..(new - 1)}

Summarised(blocks, items) ==
  [blocks |-> blocks, items |-> items,
   summary |-> [change \in {"added", "removed", "modified"} |->
                  Cardinality({i \in items : i.change = change})]]

MarkdownLineDiffItems(from, to, blocks) ==
  Summarised(blocks, UNION {BlockItems(from, to, blocks[k]) : k \in DOMAIN blocks})

MarkdownLineDiff(from, to) ==
  MarkdownLineDiffItems(from, to, CollectMarkdownDiffBlocks(from, to)[Whole(from, to)])

-----------------------------------------------------------------------------
(* What a comparison promises.                                             *)

Equal(from, to, r) ==
  /\ r.fs <= r.fe /\ r.fe - r.fs = r.te - r.ts
  /\ \A i \in 0..(r.fe - r.fs - 1) : from[r.fs + i] = to[r.ts + i]

\* The lines of a range between its k-th block and the next, before the first (k = 0) and
\* after the last.
Between(range, blocks, k) ==
  Span(IF k = 0 THEN range.fs ELSE blocks[k].fe,
       IF k = Len(blocks) THEN range.fe ELSE blocks[k + 1].fs,
       IF k = 0 THEN range.ts ELSE blocks[k].te,
       IF k = Len(blocks) THEN range.te ELSE blocks[k + 1].ts)

Nonempty(b) == b.fs <= b.fe /\ b.ts <= b.te /\ (b.fs < b.fe \/ b.ts < b.te)

\* The blocks are in order, none is empty, and outside them the two documents are equal.
Covers(from, to, range, blocks) ==
  /\ \A k \in DOMAIN blocks : Nonempty(blocks[k])
  /\ \A k \in 0..Len(blocks) : Equal(from, to, Between(range, blocks, k))

Changed(blocks, first, end) == UNION {blocks[k][first]..(blocks[k][end] - 1) : k \in DOMAIN blocks}
Said(items, changes) == {i \in items : i.change \in changes}

\* The items say of each changed line what it was or is, and their numbers add up.
Replays(from, to, blocks, items) ==
  /\ Covers(from, to, Whole(from, to), blocks)
  /\ {<<i.line, i.old>> : i \in Said(items, {"modified", "removed"})}
       = {<<n, from[n]>> : n \in Changed(blocks, "fs", "fe")}
  /\ {i.new : i \in Said(items, {"modified", "added"})} = {to[n] : n \in Changed(blocks, "ts", "te")}
  /\ \A i \in Said(items, {"added"}) : i.line \in Changed(blocks, "ts", "te") /\ i.new = to[i.line]
  /\ Len(from) + Cardinality(Said(items, {"added"})) = Len(to) + Cardinality(Said(items, {"removed"}))

=============================================================================
