------------------------------ MODULE MCFetch ------------------------------
(* A plain and a TLS URL and one that does not parse; every framing, bodies that do and do
   not fit the buffers, and redirects of each form. *)
EXTENDS Fetch

Plain == [https |-> FALSE, host |-> "a", port |-> "80"]
Secure == [https |-> TRUE, host |-> "b", port |-> "443"]
MCUrls == {Plain, Secure, [Plain EXCEPT !.port = "bad"]}

Nowhere == [form |-> "none", url |-> Plain]
Answer(framing, n, rec) ==
    [status |-> "ok", loc |-> Nowhere, framing |-> framing, n |-> n, rec |-> rec]
RedirectTo(form, u) ==
    [status |-> "redirect", loc |-> [form |-> form, url |-> u], framing |-> "cl", n |-> 1, rec |-> 2]

MCReplies ==
    {Answer("cl", 2, 2), Answer("cl", 2, 4), Answer("chunked", 1, 2), Answer("close", 1, 2)}
    \cup {RedirectTo("absolute", u) : u \in MCUrls}
    \cup {RedirectTo("path", Plain), RedirectTo("scheme", Secure), RedirectTo("none", Plain)}
============================================================================
