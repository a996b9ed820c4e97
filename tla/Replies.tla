-------------------------------- MODULE Replies --------------------------------
(***************************************************************************)
(* How a reply of the MCP server is cut to what a result may hold: the     *)
(* lists of a reply to as many rows, or the texts of records to as many     *)
(* characters and their headers to as many headers.  A list or a text is    *)
(* its length, weight the bytes of a row; a character is a byte.            *)
(***************************************************************************)
EXTENDS Integers, Sequences, FiniteSetsExt, Functions, Sums

CONSTANTS NoteBytes, RESULT_BYTES, DEFAULT_ROWS, MAX_ROWS,
          NoLimit,          \* the limit of a page that gives none
          NotPaged          \* and that of a list that is no page

Longest(lengths) == Max(Range(lengths) \union {0})
Cut(lengths, most) == [i \in DOMAIN lengths |-> Min({lengths[i], most})]
Weight(lengths, weight) == weight * SumOf(lengths)

\* Page::new: a limit, within bounds, before anything is cut to fit.
Page(total, limit) ==
  CASE limit = NotPaged -> total
    [] limit = NoLimit -> Min({total, DEFAULT_ROWS})
    [] OTHER -> Min({total, Max({1, Min({limit, MAX_ROWS})})})

\* The loop of search: of <<fitting, too_many>>, what fits in the end.
Halved(top, fitting) ==
  LET halve[p \in (0..top) \X (0..top)] ==
        IF p[2] - p[1] <= 1 THEN p[1]
        ELSE LET mid == p[1] + (p[2] - p[1]) \div 2 IN
             IF mid \in fitting THEN halve[<<mid, p[2]>>] ELSE halve[<<p[1], mid>>]
  IN halve

\* search: everything if it fits, or else as much as fits, by halving; fitting
\* has the counts that fit.
Search(most, fitting) ==
  LET top == Min({most, RESULT_BYTES}) IN
  IF top \in fitting THEN top ELSE Halved(top, fitting)[<<0, top>>]

\* render: every list, and every list within a row, to as many rows.
Render(reply, rows) ==
  [lists |-> Cut(reply.lists, rows), inner |-> Cut(reply.inner, rows),
   truncated |-> \E n \in Range(reply.lists) \union Range(reply.inner) : n > rows]

\* fits, with the note that something was left out.
RenderBytes(reply, rows) ==
  LET r == Render(reply, rows) IN
  Weight(r.lists, reply.weight) + Weight(r.inner, reply.weight)
    + (IF r.truncated THEN NoteBytes ELSE 0)

\* fit, halving the rows once.
FitOnce(reply) ==
  LET most == Max({Longest(reply.lists), Longest(reply.inner)}) IN
  Render(reply, IF RenderBytes(reply, most) <= RESULT_BYTES THEN most ELSE most \div 2)

Fit(reply) ==
  LET most == Max({Longest(reply.lists), Longest(reply.inner)}) IN
  Render(reply, Search(most, {n \in 0..most : RenderBytes(reply, n) <= RESULT_BYTES}))

-----------------------------------------------------------------------------
(* Records: [texts, headers] each, with key and value, and the texts of each *)
(* header; they are shown one by one whatever the budget.                    *)

\* The longest text of a record, or the number of its headers.
RecordLength(record) ==
  Max({Len(record.headers), Longest(record.texts)}
      \union {Longest(header) : header \in Range(record.headers)})

Clipped(record, budget) ==
  [texts |-> Cut(record.texts, budget),
   headers |-> [i \in 1..Min({Len(record.headers), budget}) |-> Cut(record.headers[i], budget)],
   headersLeftOut |-> Max({0, Len(record.headers) - budget}),
   cut |-> RecordLength(record) > budget]

\* The characters of a record: those of its texts, and of each header, which
\* takes one even when it is empty.
Characters(shown) ==
  ({0} \X Units(shown.texts))
  \union UNION {{i} \X ({<<0, 0>>} \union Units(shown.headers[i])) : i \in DOMAIN shown.headers}

RecordsBytes(records, budget) ==
  LET shown == [i \in DOMAIN records |-> Clipped(records[i], budget)] IN
  Cardinality(UNION {{i} \X Characters(shown[i]) : i \in DOMAIN shown})
    + (IF \E i \in DOMAIN shown : shown[i].cut THEN NoteBytes ELSE 0)

LongestRecord(records) == Longest([i \in DOMAIN records |-> RecordLength(records[i])])

RecordsResult(records) ==
  LET most == LongestRecord(records)
      budget == Search(most, {b \in 0..most : RecordsBytes(records, b) <= RESULT_BYTES}) IN
  [i \in DOMAIN records |-> Clipped(records[i], budget)]
=============================================================================
