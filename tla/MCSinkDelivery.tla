--------------------------- MODULE MCSinkDelivery ---------------------------
EXTENDS SinkDelivery

\* Empty, oversized and malformed batches between ordinary ones, and a row that
\* cannot be indexed behind an oversized one.
MCWorkloads == {<<"rows", "empty", "rows">>,
                <<"rows", "oversized", "unindexable">>,
                <<"rows", "malformed", "rows">>}

\* Parts that fill up an open file, need memory, and need a third writer.
MCPartitionOf == <<<<1, 1>>, <<2, 2, 2>>, <<1, 2, 1, 3>>>>

=============================================================================
