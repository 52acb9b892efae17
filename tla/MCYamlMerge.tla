---------------------------- MODULE MCYamlMerge ----------------------------
(* The lines of small conflicted files for TLC. *)
EXTENDS YamlMerge

count(v) == Scalar("trigger_count", v)
phase(v) == Scalar("phase", v)

\* A delimiter, the end of a frontmatter with a key, a key that is no scalar, and a line
\* of text that git's separator looks like.
MCCommons == {<<Delim>>, <<count(2), Delim>>, <<Nested("phase")>>, <<Sep>>}

\* Nothing, text, scalars, a side across the delimiter, and whole frontmatters.
MCSides == {<<>>, <<Text(1)>>, <<count(1)>>, <<count(3), phase(InProgress)>>,
            <<phase(Execution)>>, <<phase(InProgress), Delim, Text(2)>>,
            <<Text(3), Delim, Text(4)>>,
            <<Delim, count(2), Delim, Text(7)>>, <<Delim, phase(Execution), Delim, Text(8)>>}

MCContents == {<<Text(4)>>, <<Delim, Text(4)>>,
               <<Delim, phase(InProgress), Delim>>, <<Delim, Delim, phase(InProgress)>>}
============================================================================
