SPECIFICATION Spec
CONSTANTS
    Receipts = {root, child}
    Envelope <- TwinEnvelope
    Keys = {key1}
    Nonces = {n1, n2, n3}
    Times = {1}
    Ledgers = {g1}
    Faults = {"lost"}
    None = None
    root = root
    child = child
    grand = grand
    copy = copy
    key1 = key1
    n1 = n1
    n2 = n2
    n3 = n3
CONSTRAINT Bounded
SYMMETRY Symmetry
INVARIANT OneReceiptPerNonce
