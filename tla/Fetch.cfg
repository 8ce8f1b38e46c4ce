\* Two redirects are enough to pass from plain to TLS and back; buffers of two pieces split
\* headers and bodies, and four pieces are a record that does not fit.
SPECIFICATION FairSpec
CONSTANTS
    Urls <- MCUrls
    Replies <- MCReplies
    MAX_REDIRECTS = 2
    BUF = 2
    TIMEOUT = 1
INVARIANTS  NoncesAreFresh
 
