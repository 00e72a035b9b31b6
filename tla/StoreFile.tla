----------------------------- MODULE StoreFile -----------------------------
(***************************************************************************)
(* The text format of stored_values.txt (server.c, store_data and          *)
(* load_stored_values).  A line is the sequence of its ':'-separated       *)
(* tokens; the empty line is the empty sequence.                           *)
(***************************************************************************)
EXTENDS NetlinkKernel

Line == Seq(Tokens)
Blank == <<>>

\* fprintf(srcFile, "%s:%s\n", key, mess): a value that itself ends in a
\* newline leaves an empty line behind.
FileLine(k, v) == k \o v.toks
FileLines(k, v) == IF v.nl THEN <<FileLine(k, v), Blank>> ELSE <<FileLine(k, v)>>

\* load_stored_values: strtok cuts the line at every ':', the first token is
\* the key, the second the value.  getline keeps the newline, so the last
\* token of the line ends in one.
LineKey(line) == <<line[1]>>
LineValue(line) == [toks |-> <<line[2]>>, nl |-> Len(line) = 2]

\* The regular expression ".*:.*" of load_stored_values.
HasColon(line) == Len(line) >= 2

\* Mutant of Survives: the result of strcmp taken the wrong way round.
Survives_inverted(line, k) == line = Blank \/ LineKey(line) = k

\* Mutant of Survives: the key to delete is cut at its first ':' as well.
Survives_cutkey(line, k) == line = Blank \/ LineKey(line) # <<k[1]>>

\* store_data, DELETE: a line survives if its first token is not the key.
Survives(line, k) == line = Blank \/ LineKey(line) # k
=============================================================================
