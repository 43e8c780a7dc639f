SPECIFICATION Spec
CONSTANTS
    Files = {f1, f2}
    Blocks = 2
    Revisions = {1, 2}
    MaxStamp = 4
    f1 = f1
    f2 = f2
INVARIANTS TypeOK VerifiedIntact ReceiptHonest
