------------------------------- MODULE HttpWrite -------------------------------
(***************************************************************************)
(* What http_conn::write of version2.0 keeps of an answer between two      *)
(* calls of writev, each of which may take less than it is offered: the    *)
(* header in m_write_buffer, and the file after it or, for an error page,  *)
(* nothing.  Positions are offsets into the header and into the file.      *)
(***************************************************************************)
EXTENDS Integers

\* process_write: m_iv[0] is the header, m_iv[1] the file.
Response(header, file) ==
    [have |-> 0, left |-> header + file,        \* bytes_have_send and bytes_to_send
     base0 |-> 0, len0 |-> header,
     base1 |-> 0, len1 |-> file]

\* What a call of writev is offered: m_iv_count is 1 for an error page.
Offered(r, m_iv_count) == IF m_iv_count = 1 THEN r.len0 ELSE r.len0 + r.len1

\* The loop of write, after writev has taken n bytes.
After(r, header, n) ==
    LET have == r.have + n
        left == r.left - n
    IN  IF have >= r.len0
          THEN [have |-> have, left |-> left, base0 |-> r.base0, len0 |-> 0,
                base1 |-> have - header, len1 |-> left]
          ELSE [have |-> have, left |-> left, base0 |-> have, len0 |-> r.len0 - n,
                base1 |-> r.base1, len1 |-> r.len1]
===============================================================================
