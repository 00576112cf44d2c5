SPECIFICATION CryptoSpec
CONSTANTS
    Copies = {c1, c2}
    Elements <- MCElements
    Secrets <- MCSecrets
    NoSecret = NoSecret
INVARIANTS SameRoot StatementUnique
