----------------------------- MODULE MCHTTPTask -----------------------------
EXTENDS HTTPTask

MCVersions == {"1.0", "1.1", "0.9"}
Asked == [version : MCVersions, connection : {"", "close", "keep-alive"}]
Kept  == {[version |-> "1.1", connection |-> ""], [version |-> "1.0", connection |-> "keep-alive"]}
\* A request and one behind it that leaves the connection open.
MCRequests == {<<first, second>> : first \in Asked, second \in Kept}
=============================================================================
