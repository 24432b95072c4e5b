-------------------------------- MODULE Intake --------------------------------
(***************************************************************************)
(* The import of a batch, services/batch.py: from the lines of a file to   *)
(* the rows of batch_items that Batch starts with, and what run_item then  *)
(* makes of a row (jobs/batch_runner.py).                                  *)
(*                                                                         *)
(* A cell is "" when it is empty, "long" when it is longer than its        *)
(* column, and else what it says. A duration is in half seconds. A line is *)
(* blank as a "line" when it has no cells, as "cells" when all are empty.  *)
(***************************************************************************)
EXTENDS Integers, Sequences, FiniteSets

RequiredColumns == {"name", "category"}

\* The ratios of AspectRatio.
Ratios == {"9:16", "16:9", "1:1", "4:5"}

\* int(float(text)): cut to whole seconds. An infinite number has none.
IsNumber(duration) == duration.text \in {"number", "inf"}
Seconds(duration) == duration.halves \div 2

\* _validate_row: the columns it objects to. Brand and language have no rule.
Errors(row) ==
    {column \in RequiredColumns : row[column] = ""}
    \cup {column \in {"name", "sku"} : row[column] = "long"}
    \cup (IF row.duration.text = "" \/ (IsNumber(row.duration) /\ Seconds(row.duration) \in 5 .. 180)
            THEN {} ELSE {"duration"})
    \cup (IF row.ratio \in Ratios \cup {""} THEN {} ELSE {"ratio"})
    \cup (IF row.url \in {"", "http"} THEN {} ELSE {"url"})

\* csv.DictReader passes over lines without cells before they are counted;
\* parse_xlsx counts every line, and then leaves out those with empty cells.
Written(format, line) == line.blank \notin (IF format = "csv" THEN {"line"} ELSE {"line", "cells"})

\* The rows and their numbers; the header is line 1.
Numbered(format, lines) ==
    LET HasRow(line) == Written(format, line)
        Row(i, line) == [number |-> i + 1, row |-> line.row]
        kept == SelectSeq(lines, HasRow)
        all == [i \in DOMAIN lines |-> [line |-> lines[i], entry |-> Row(i, lines[i])]]
        written == SelectSeq(all, LAMBDA one : HasRow(one.line))
    IN  IF format = "csv" THEN [i \in DOMAIN kept |-> Row(i, kept[i])]
        ELSE [i \in DOMAIN written |-> written[i].entry]

\* The loops stop at MAX_ROWS.
Read(format, lines, maxRows) ==
    LET entries == Numbered(format, lines)
    IN  SubSeq(entries, 1, IF Len(entries) < maxRows THEN Len(entries) ELSE maxRows)

\* OverflowError is no ValueError: nobody catches it, and the import fails.
Readable(entries) == \A i \in DOMAIN entries : entries[i].row.duration.text # "inf"

\* parse_csv, parse_xlsx
Parsed(format, lines, maxRows) ==
    LET entries == Read(format, lines, maxRows)
    IN  [i \in DOMAIN entries |-> [number |-> entries[i].number, row |-> entries[i].row,
                                   errors |-> Errors(entries[i].row)]]

Valid(rows) == SelectSeq(rows, LAMBDA row : row.errors = {})

\* create_from_upload
Refused(columns, rows) == ~(RequiredColumns \subseteq columns) \/ rows = <<>>
Created(rows) ==
    [status |-> IF Valid(rows) = <<>> THEN "FAILED" ELSE "READY",
     total |-> Len(rows),
     items |-> [i \in DOMAIN rows |-> [number |-> rows[i].number,
                                       status |-> IF rows[i].errors = {} THEN "PENDING" ELSE "INVALID"]]]

-----------------------------------------------------------------------------
\* _brief_from: what the row names, before what the template or the default has.
BriefFrom(row, template) ==
    [seconds |-> IF IsNumber(row.duration) THEN Seconds(row.duration) ELSE template.seconds,
     ratio |-> IF row.ratio \in Ratios THEN row.ratio ELSE template.ratio]

\* materialise and create cut the name and the category to their columns; the
\* database refuses what is too long for the others.
Materialises(row) == row.sku # "long" /\ row.brand # "long" /\ row.language # "long"

-----------------------------------------------------------------------------
(* Properties.                                                             *)

\* P21-T06: a row's number is the line the user sees, in a workbook.
LinesAreTheUsers(lines, maxRows) ==
    LET rows == Parsed("xlsx", lines, maxRows)
    IN  \A i \in DOMAIN rows : lines[rows[i].number - 1].row = rows[i].row

\* A .csv with a line without cells numbers the rows after it by other lines.
LinesAreOthers(lines, maxRows) ==
    LET rows == Parsed("csv", lines, maxRows)
    IN  \E i \in DOMAIN rows : LET line == lines[rows[i].number - 1]
                               IN  line.blank = "line" \/ line.row # rows[i].row

\* create_batch: an upload with the required columns is refused exactly when it
\* has no row; else every written line up to MAX_ROWS is an item, so that the
\* count matches the file, and the batch is READY exactly when one can start.
CountMatches(format, lines, maxRows) ==
    LET entries == Read(format, lines, maxRows)
        written == {i \in DOMAIN lines : Written(format, lines[i])}
        parsed == Parsed(format, lines, maxRows)
        created == Created(parsed)
    IN  Readable(entries) =>
            /\ Refused(RequiredColumns, parsed) <=> written = {}
            /\ created.total = (IF Cardinality(written) < maxRows THEN Cardinality(written) ELSE maxRows)
            /\ (created.status = "READY") <=> \E i \in DOMAIN created.items : created.items[i].status = "PENDING"

\* A row that passed has a duration and a ratio a project may have, its own
\* where it names one.
BriefIsValid(row, template) ==
    Errors(row) = {} =>
        LET brief == BriefFrom(row, template)
        IN  /\ brief.seconds \in 5 .. 180 /\ brief.ratio \in Ratios
            /\ row.ratio # "" => brief.ratio = row.ratio

\* A row may pass and be refused when it is run.
RefusedLate(row) == Errors(row) = {} /\ ~Materialises(row)
=============================================================================
